---- MODULE Spec2Model ----
(***************************************************************************)
(* The build-validate-repair loop of src/src/validator.py                  *)
(* (ActorValidator.validate_and_fix and its helpers), as a state machine   *)
(* with one action per awaited step of the loop body.                      *)
(*                                                                         *)
(* Text is a sequence of character codes.  The deployment client, the      *)
(* repair service and the file generator's text-generation call are the    *)
(* environment: each call returns one of a small set of values or raises.  *)
(***************************************************************************)
EXTENDS Integers, Sequences, FiniteSets, TLC

(***************************************************************************)
(* Bounds of the model.                                                    *)
(***************************************************************************)
\* max_iterations is drawn from 0..MaxIterations and the cap main passes
MaxIterations == 2
\* how many times in one run wait_for_build may report a non-terminal status
MaxRepolls == 1

(***************************************************************************)
(* Program constants.                                                      *)
(***************************************************************************)
\* build_log[-1000:] in the terminal 'failed' result
ErrorTail == 1000
\* the build id of the deployment handed to validate_and_fix
InitialBuild == 0
\* max_iterations=3 in main's call of validate_and_fix
MainMaxIterations == 3

(***************************************************************************)
(* Text.                                                                   *)
(***************************************************************************)
\* a text of n characters whose character depends on its position
Text(n) == [i \in 1..n |-> 97 + (i % 26)]

\* Python's s[-n:] for n > 0
LastChars(s, n) == IF Len(s) <= n THEN s ELSE SubSeq(s, Len(s) - n + 1, Len(s))

\* 'No logs available'
NoLogsAvailable ==
    <<78, 111, 32, 108, 111, 103, 115, 32, 97, 118, 97, 105, 108, 97, 98, 108, 101>>

\* lengths of the texts the environment hands back (logs, exception messages)
LogLengths == {0, 3, 1001}
BuildLogs == {Text(n) : n \in LogLengths}

\* what a collaborator call raises: the exception class and str(e)
Exceptions ==
    [type : {"TimeoutError"}, msg : {Text(2), Text(1001)}]
    \cup [type : {"Exception"}, msg : {Text(0), Text(1001)}]

(***************************************************************************)
(* The inputs of validate_and_fix.                                         *)
(***************************************************************************)
ActorIds == {"actorA", "actorB"}
Deployments == [actor_id : ActorIds, build_id : {InitialBuild}]

\* the 'default' entry of an input-field descriptor: the key is missing, its
\* value is None, or it is a value (the empty string is a value)
NoDefault == [k |-> "absent", v |-> ""]
NullDefault == [k |-> "null", v |-> ""]
Value(v) == [k |-> "value", v |-> v]
\* one descriptor of requirements['input_fields']
Field(name, required, default) ==
    [name |-> name, required |-> required, default |-> default]

\* the requirements handed to validate_and_fix: the declared input fields and a
\* dependency list that does not name 'apify' (the generator then adds it)
Requirements ==
    [input_fields : {<<Field("url", TRUE, Value("https://example.com")),
                       Field("max_items", FALSE, NoDefault)>>},
     dependencies : {<<"requests">>}]

\* f"https://console.apify.com/actors/{actor_id}"
ConsoleUrl(actor_id) == <<"https://console.apify.com/actors/", actor_id>>

(***************************************************************************)
(* Build statuses reported by wait_for_build.                              *)
(***************************************************************************)
FailureStatuses == {"FAILED", "ABORTED", "TIMED-OUT"}
OtherStatuses == {"RUNNING", "READY"}
TerminalStatuses == {"SUCCEEDED"} \cup FailureStatuses
BuildStatuses == TerminalStatuses \cup OtherStatuses

VARIABLES
    api_key,          \* os.environ.get('ANTHROPIC_API_KEY') is set
    deployment,       \* argument: [actor_id, build_id]
    requirements,     \* argument: [input_fields, dependencies]
    max_iterations,   \* argument
    iteration,        \* local of validate_and_fix
    current_build_id, \* local of validate_and_fix
    status,           \* build_status.get('status') of the latest poll
    test_result,      \* the latest probe's result
    build_log,        \* the latest fetched build log
    fixed_files,      \* the FileSet a repair returned
    pc,               \* the awaited step the run is at
    result,           \* the returned ValidationResult
    raised,           \* the exception that ended the run, if any
    hist,             \* what the run has done so far (observation only)
    frame             \* the activation of a helper that is called on its own

vars == <<api_key, deployment, requirements, max_iterations, iteration,
          current_build_id, status, test_result, build_log, fixed_files, pc, result,
          raised, hist, frame>>

(***************************************************************************)
(* Values of the locals before their first assignment.                     *)
(***************************************************************************)
NoResult == [status |-> "none"]
NoException == [type |-> "none", msg |-> <<>>]
NoTestResult ==
    [success |-> FALSE, item_count |-> 0, message |-> <<"none">>, log |-> <<>>]
NoFiles == [p \in {} |-> <<>>]
NoFrame == [fn |-> "none"]

InitHist ==
    [polls |-> 0,            \* wait_for_build calls
     repolls |-> 0,          \* polls that saw a non-terminal status
     probes |-> 0,           \* _test_actor_run calls
     patch_requests |-> 0,   \* calls of the repair service
     updates |-> 0,          \* update_actor_version calls that returned
     triggers |-> 0,         \* _trigger_build calls that returned
     builds |-> [s \in TerminalStatuses |-> 0],  \* terminal statuses observed, how often
     probe_kind |-> "none",  \* how the pass's probe ended (until the repair returns)
     probe_errors |-> 0,     \* probes that ended in the except clause
     probe_exc |-> NoException, \* the exception that probe caught
     response |-> "none",    \* what the repair service answered in the latest repair
     patch_failed |-> FALSE, \* the latest patch request failed
     fresh |-> NoFiles,      \* the generation the latest repair's FileSet rests on
     fault |-> "none",       \* the step whose exception reached the loop's handler
     exc |-> NoException]    \* that exception

(***************************************************************************)
(* The ValidationResult built at each return of validate_and_fix.          *)
(***************************************************************************)
\* mutant: the 0-based counter is reported
SuccessResult_ZeroBased(actor_id, bid, it, tr) ==
    [status |-> "success",
     actor_id |-> actor_id,
     build_id |-> bid,
     console_url |-> ConsoleUrl(actor_id),
     iterations |-> it,
     message |-> <<"Actor built and tested successfully (", tr.item_count, " items)">>]

\* validator.py 71-78: the probe produced data
SuccessResult(actor_id, bid, it, tr) ==
    [status |-> "success",
     actor_id |-> actor_id,
     build_id |-> bid,
     console_url |-> ConsoleUrl(actor_id),
     iterations |-> it + 1,
     message |-> <<"Actor built and tested successfully (", tr.item_count, " items)">>]

\* mutant: an exhausted budget is a failure in this branch too
PartialSuccessResult_Failed(actor_id, bid, it, tr) ==
    [status |-> "failed",
     actor_id |-> actor_id,
     build_id |-> bid,
     console_url |-> ConsoleUrl(actor_id),
     iterations |-> it + 1,
     message |-> <<"Build succeeded but test run produced no data: ", tr.message>>,
     error |-> tr.log]

\* mutant: the result names the build of the deployment handed in
PartialSuccessResult_FirstBuild(actor_id, bid, it, tr) ==
    [status |-> "success",
     actor_id |-> actor_id,
     build_id |-> InitialBuild,
     console_url |-> ConsoleUrl(actor_id),
     iterations |-> it + 1,
     message |-> <<"Build succeeded but test run produced no data: ", tr.message>>]

\* validator.py 84-91: the build succeeded, the probe did not, no budget left
PartialSuccessResult(actor_id, bid, it, tr) ==
    [status |-> "success",
     actor_id |-> actor_id,
     build_id |-> bid,
     console_url |-> ConsoleUrl(actor_id),
     iterations |-> it + 1,
     message |-> <<"Build succeeded but test run produced no data: ", tr.message>>]

\* mutant: no default text for an empty log
BuildFailedResult_NoDefault(actor_id, bid, it, maxit, log) ==
    [status |-> "failed",
     actor_id |-> actor_id,
     build_id |-> bid,
     console_url |-> ConsoleUrl(actor_id),
     iterations |-> it + 1,
     message |-> <<"Build failed after ", maxit, " attempts">>,
     error |-> LastChars(log, ErrorTail)]

\* validator.py 125-133: the build failed, no budget left
BuildFailedResult(actor_id, bid, it, maxit, log) ==
    [status |-> "failed",
     actor_id |-> actor_id,
     build_id |-> bid,
     console_url |-> ConsoleUrl(actor_id),
     iterations |-> it + 1,
     message |-> <<"Build failed after ", maxit, " attempts">>,
     error |-> IF log # <<>> THEN LastChars(log, ErrorTail) ELSE NoLogsAvailable]

\* mutant: the timeout result counts the passes still to come
TimeoutResult_Remaining(actor_id, bid, it, e) ==
    [status |-> "failed",
     actor_id |-> actor_id,
     build_id |-> bid,
     console_url |-> ConsoleUrl(actor_id),
     iterations |-> it + 2,
     message |-> <<"Build timed out">>,
     error |-> e.msg]

\* validator.py 162-172: except TimeoutError
TimeoutResult(actor_id, bid, it, e) ==
    [status |-> "failed",
     actor_id |-> actor_id,
     build_id |-> bid,
     console_url |-> ConsoleUrl(actor_id),
     iterations |-> it + 1,
     message |-> <<"Build timed out">>,
     error |-> e.msg]

\* mutant: the exception's message is dropped
ErrorResult_NoDetail(actor_id, bid, it, e) ==
    [status |-> "failed",
     actor_id |-> actor_id,
     build_id |-> bid,
     console_url |-> ConsoleUrl(actor_id),
     iterations |-> it + 1,
     message |-> <<"Validation error">>,
     error |-> <<>>]

\* validator.py 174-184: except Exception
ErrorResult(actor_id, bid, it, e) ==
    [status |-> "failed",
     actor_id |-> actor_id,
     build_id |-> bid,
     console_url |-> ConsoleUrl(actor_id),
     iterations |-> it + 1,
     message |-> <<"Validation error">>,
     error |-> e.msg]

\* validator.py 186-194: after the while loop
FallThroughResult(actor_id, bid, maxit) ==
    [status |-> "failed",
     actor_id |-> actor_id,
     build_id |-> bid,
     console_url |-> ConsoleUrl(actor_id),
     iterations |-> maxit,
     message |-> <<"Could not fix errors in ", maxit, " attempts">>]

\* mutant: the handlers report the 0-based counter
HandlerResult_ZeroBased(actor_id, bid, it, e) ==
    IF e.type = "TimeoutError"
    THEN TimeoutResult(actor_id, bid, it - 1, e)
    ELSE ErrorResult(actor_id, bid, it - 1, e)

\* the except clauses of the loop body, tried in order
HandlerResult(actor_id, bid, it, e) ==
    IF e.type = "TimeoutError"
    THEN TimeoutResult(actor_id, bid, it, e)
    ELSE ErrorResult(actor_id, bid, it, e)

\* mutant: the loop is left one iteration early
LoopGuard_OneLess(it, maxit) == it < maxit - 1

\* the while condition
LoopGuard(it, maxit) == it < maxit

(***************************************************************************)
(* Initial states: the arguments and the environment of one call.          *)
(***************************************************************************)
Init ==
    /\ api_key \in BOOLEAN
    /\ deployment \in Deployments
    /\ requirements \in Requirements
    /\ max_iterations \in (0..MaxIterations) \cup {MainMaxIterations}
    /\ iteration = 0
    /\ current_build_id = InitialBuild
    /\ status = "none"
    /\ test_result = NoTestResult
    /\ build_log = <<>>
    /\ fixed_files = NoFiles
    /\ pc = "start"
    /\ result = NoResult
    /\ raised = NoException
    /\ hist = InitHist
    /\ frame = NoFrame

\* mutant: a polling timeout is retried instead of returned
Catch_RetryTimeout(e, step) ==
    /\ IF step = "wait_for_build" /\ e.type = "TimeoutError"
       THEN /\ pc' = "poll"
            /\ result' = result
       ELSE /\ pc' = "done"
            /\ result' = HandlerResult(deployment.actor_id, current_build_id,
                                       iteration, e)
    /\ hist' = [hist EXCEPT !.fault = step, !.exc = e,
                            !.polls = IF step = "wait_for_build" THEN @ + 1 ELSE @,
                            !.response = IF step = "wait_for_build" THEN "none" ELSE @]

\* an exception raised by `step` inside the try block: the handler returns
Catch(e, step) ==
    /\ result' = HandlerResult(deployment.actor_id, current_build_id, iteration, e)
    /\ pc' = "done"
    /\ hist' = [hist EXCEPT !.fault = step, !.exc = e,
                            !.polls = IF step = "wait_for_build" THEN @ + 1 ELSE @,
                            !.response = IF step = "wait_for_build" THEN "none" ELSE @]

\* control is at the while condition with iteration counter `it`
AtLoopHead(it) ==
    IF LoopGuard(it, max_iterations)
    THEN /\ pc' = "poll"
         /\ result' = result
    ELSE /\ pc' = "done"
         /\ result' = FallThroughResult(deployment.actor_id, current_build_id',
                                        max_iterations)

(***************************************************************************)
(* validate_and_fix (module level) and the head of the method: the         *)
(* configuration check, the locals, the first test of the while condition. *)
(***************************************************************************)
Enter ==
    /\ pc = "start"
    /\ IF ~api_key
       THEN /\ raised' = [type |-> "ValueError",
                          msg |-> <<"ANTHROPIC_API_KEY environment variable is required">>]
            /\ pc' = "raised"
            /\ UNCHANGED <<iteration, current_build_id, result>>
       ELSE /\ iteration' = 0
            /\ current_build_id' = deployment.build_id
            /\ AtLoopHead(0)
            /\ UNCHANGED raised
    /\ UNCHANGED <<api_key, deployment, requirements, max_iterations, frame, status, test_result,
                   build_log, fixed_files, hist>>

(***************************************************************************)
(* wait_for_build: the build's status, or an exception.                    *)
(***************************************************************************)
\* mutant: an aborted build is taken for a succeeded one
PcAfterBuild_AbortedSucceeded(s) ==
    IF s \in {"SUCCEEDED", "ABORTED"} THEN "probe"
    ELSE IF s \in {"FAILED", "TIMED-OUT"} THEN "get_log"
    ELSE "sleep"

\* mutant: ABORTED is not among the failure statuses
PcAfterBuild_AbortedUnknown(s) ==
    IF s = "SUCCEEDED" THEN "probe"
    ELSE IF s \in {"FAILED", "TIMED-OUT"} THEN "get_log"
    ELSE "sleep"

PcAfterBuild(s) ==
    IF s = "SUCCEEDED" THEN "probe"
    ELSE IF s \in FailureStatuses THEN "get_log"
    ELSE "sleep"

WaitForBuild ==
    /\ pc = "poll"
    /\ \/ \E s \in BuildStatuses :
            /\ s \notin TerminalStatuses => hist.repolls < MaxRepolls
            /\ status' = s
            /\ pc' = PcAfterBuild(s)
            /\ hist' = [hist EXCEPT
                          !.polls = @ + 1,
                          !.response = "none",
                          !.repolls = IF PcAfterBuild(s) = "sleep" THEN @ + 1 ELSE @,
                          !.builds = IF PcAfterBuild(s) = "sleep" THEN @
                                     ELSE [@ EXCEPT ![s] = @ + 1]]
            /\ UNCHANGED result
       \/ \E e \in Exceptions :
            /\ Catch(e, "wait_for_build")
            /\ UNCHANGED status
    /\ UNCHANGED <<api_key, deployment, requirements, max_iterations, frame, iteration, current_build_id,
                   test_result, build_log, fixed_files, raised>>

\* mutant: a pass that saw an unexpected status consumes an iteration
Sleep_ConsumesIteration ==
    /\ pc = "sleep"
    /\ iteration' = iteration + 1
    /\ UNCHANGED <<api_key, deployment, requirements, max_iterations, frame,
                   current_build_id, status, test_result, build_log, fixed_files,
                   raised, hist>>
    /\ AtLoopHead(iteration + 1)

\* mutant: the branch of an unexpected status ends the call without a result
Sleep_ReturnNone ==
    /\ pc = "sleep"
    /\ pc' = "done"
    /\ UNCHANGED <<api_key, deployment, requirements, max_iterations, frame,
                   iteration, current_build_id, status, test_result, build_log,
                   fixed_files, result, raised, hist>>

\* asyncio.sleep(10) after an unexpected status, then the while condition
Sleep ==
    /\ pc = "sleep"
    /\ AtLoopHead(iteration)
    /\ UNCHANGED <<api_key, deployment, requirements, max_iterations, frame, iteration, current_build_id,
                   status, test_result, build_log, fixed_files, raised, hist>>

(***************************************************************************)
(* _test_actor_run: the probe.  The run is started, its log is fetched     *)
(* (a failure of that fetch is absorbed), its dataset is read.             *)
(***************************************************************************)
\* 'Could not fetch run log'
CouldNotFetchRunLog ==
    <<67, 111, 117, 108, 100, 32, 110, 111, 116, 32, 102, 101, 116, 99, 104, 32,
      114, 117, 110, 32, 108, 111, 103>>

RunStatuses == {"SUCCEEDED", "FAILED"}
RunLogs == {Text(3)}
ItemCounts == 0..2

\* client.actor(actor_id).call(...): a run record, or an exception
CallOutcomes ==
    [ok : {TRUE}, status : RunStatuses, has_dataset : BOOLEAN, exc : {NoException}]
    \cup [ok : {FALSE}, status : {"none"}, has_dataset : {FALSE}, exc : Exceptions]
\* client.log(run_id).get(): the log text, or an exception
LogOutcomes ==
    [ok : {TRUE}, text : RunLogs] \cup [ok : {FALSE}, text : {<<>>}]
\* client.dataset(id).get(): a dataset record (itemCount may be missing), or an exception
DatasetOutcomes ==
    [ok : {TRUE}, has_count : {TRUE}, itemCount : ItemCounts, exc : {NoException}]
    \cup [ok : {TRUE}, has_count : {FALSE}, itemCount : {0}, exc : {NoException}]
    \cup [ok : {FALSE}, has_count : {FALSE}, itemCount : {0}, exc : Exceptions]

\* mutant: the exception's text is not kept as the log
ProbeError_NoLog(e) ==
    [success |-> FALSE,
     item_count |-> 0,
     message |-> <<"Test run error: ", e.msg>>,
     log |-> <<>>]

\* the except clause of _test_actor_run, validator.py 279-286
ProbeError(e) ==
    [success |-> FALSE,
     item_count |-> 0,
     message |-> <<"Test run error: ", e.msg>>,
     log |-> e.msg]

\* mutant: a dataset without items counts as data
test_actor_run_EmptyIsSuccess(call, log, ds) ==
    IF ~call.ok THEN ProbeError(call.exc)
    ELSE LET log_text == IF log.ok THEN log.text ELSE CouldNotFetchRunLog IN
         IF call.status # "SUCCEEDED"
         THEN [success |-> FALSE,
               item_count |-> 0,
               message |-> <<"Run failed with status: ", call.status>>,
               log |-> log_text]
         ELSE IF call.has_dataset
         THEN IF ~ds.ok THEN ProbeError(ds.exc)
              ELSE LET item_count == IF ds.has_count THEN ds.itemCount ELSE 0 IN
                   IF item_count >= 0
                   THEN [success |-> TRUE,
                         item_count |-> item_count,
                         message |-> <<"Produced ", item_count, " items">>,
                         log |-> log_text]
                   ELSE [success |-> FALSE,
                         item_count |-> 0,
                         message |-> <<"Run succeeded but produced no data">>,
                         log |-> log_text]
         ELSE [success |-> FALSE,
               item_count |-> 0,
               message |-> <<"No dataset found">>,
               log |-> log_text]

test_actor_run(call, log, ds) ==
    IF ~call.ok THEN ProbeError(call.exc)
    ELSE LET log_text == IF log.ok THEN log.text ELSE CouldNotFetchRunLog IN
         IF call.status # "SUCCEEDED"
         THEN [success |-> FALSE,
               item_count |-> 0,
               message |-> <<"Run failed with status: ", call.status>>,
               log |-> log_text]
         ELSE IF call.has_dataset
         THEN IF ~ds.ok THEN ProbeError(ds.exc)
              ELSE LET item_count == IF ds.has_count THEN ds.itemCount ELSE 0 IN
                   IF item_count > 0
                   THEN [success |-> TRUE,
                         item_count |-> item_count,
                         message |-> <<"Produced ", item_count, " items">>,
                         log |-> log_text]
                   ELSE [success |-> FALSE,
                         item_count |-> 0,
                         message |-> <<"Run succeeded but produced no data">>,
                         log |-> log_text]
         ELSE [success |-> FALSE,
               item_count |-> 0,
               message |-> <<"No dataset found">>,
               log |-> log_text]

\* how the probe ended (observation only)
ProbeKind(call, ds) ==
    IF ~call.ok THEN "error"
    ELSE IF call.status # "SUCCEEDED" THEN "run_failed"
    ELSE IF ~call.has_dataset THEN "no_dataset"
    ELSE IF ~ds.ok THEN "error"
    ELSE IF ds.has_count /\ ds.itemCount > 0 THEN "data"
    ELSE "no_data"

\* mutant: the cap is checked after the repair of the last pass
LastIteration_AfterCap(it, maxit) == it >= maxit

\* 'If this is the last iteration': validator.py 83 and 124
LastIteration(it, maxit) == it >= maxit - 1

\* a collaborator of the probe that the probe did not come to call
LogNotFetched == [ok |-> FALSE, text |-> <<>>]
DatasetNotRead ==
    [ok |-> FALSE, has_count |-> FALSE, itemCount |-> 0, exc |-> NoException]

\* validator.py 67-99: _test_actor_run has returned: what the loop does with
\* its result
AfterProbe(call, log, ds) ==
    LET tr == test_actor_run(call, log, ds) IN
    /\ test_result' = tr
    /\ frame' = NoFrame
    /\ hist' = [hist EXCEPT
                  !.probes = @ + 1,
                  !.probe_kind = ProbeKind(call, ds),
                  !.probe_exc = IF ~call.ok THEN call.exc
                                ELSE IF ProbeKind(call, ds) = "error" THEN ds.exc
                                ELSE NoException,
                  !.probe_errors = IF ProbeKind(call, ds) = "error" THEN @ + 1 ELSE @]
    /\ IF tr.success
       THEN /\ result' = SuccessResult(deployment.actor_id, current_build_id,
                                       iteration, tr)
            /\ pc' = "done"
       ELSE IF LastIteration(iteration, max_iterations)
       THEN /\ result' = PartialSuccessResult(deployment.actor_id,
                                              current_build_id, iteration, tr)
            /\ pc' = "done"
       ELSE /\ pc' = "fix_runtime"
            /\ UNCHANGED result

\* validator.py 67 and 211-233: _test_actor_run up to its first await, the test
\* run itself (actor.call); an exception ends the probe in its except clause
TestActorRun ==
    /\ pc = "probe"
    /\ \E call \in CallOutcomes :
         IF ~call.ok
         THEN AfterProbe(call, LogNotFetched, DatasetNotRead)
         ELSE /\ frame' = [fn |-> "_test_actor_run", run |-> call,
                           log |-> LogNotFetched]
              /\ pc' = "probe_log"
              /\ UNCHANGED <<test_result, hist, result>>
    /\ UNCHANGED <<api_key, deployment, requirements, max_iterations, iteration,
                   current_build_id, status, build_log, fixed_files, raised>>

\* validator.py 235-256 and 270-276: the run's log is fetched; the probe returns
\* here unless the run succeeded and has a dataset
FetchRunLog ==
    /\ pc = "probe_log"
    /\ \E log \in LogOutcomes :
         IF frame.run.status # "SUCCEEDED" \/ ~frame.run.has_dataset
         THEN AfterProbe(frame.run, log, DatasetNotRead)
         ELSE /\ frame' = [frame EXCEPT !.log = log]
              /\ pc' = "probe_dataset"
              /\ UNCHANGED <<test_result, hist, result>>
    /\ UNCHANGED <<api_key, deployment, requirements, max_iterations, iteration,
                   current_build_id, status, build_log, fixed_files, raised>>

\* validator.py 253-269 and 279-286: the dataset is read and the probe returns
ReadDataset ==
    /\ pc = "probe_dataset"
    /\ \E ds \in DatasetOutcomes : AfterProbe(frame.run, frame.log, ds)
    /\ UNCHANGED <<api_key, deployment, requirements, max_iterations, iteration,
                   current_build_id, status, build_log, fixed_files, raised>>

(***************************************************************************)
(* validator.py 116-133: a failed build: its log, then the cap.            *)
(***************************************************************************)
GetBuildLog ==
    /\ pc = "get_log"
    /\ \/ \E log \in BuildLogs :
            /\ build_log' = log
            /\ IF LastIteration(iteration, max_iterations)
               THEN /\ result' = BuildFailedResult(deployment.actor_id, current_build_id,
                                                   iteration, max_iterations, log)
                    /\ pc' = "done"
               ELSE /\ pc' = "fix_build"
                    /\ UNCHANGED result
            /\ UNCHANGED hist
       \/ \E e \in Exceptions :
            /\ Catch(e, "get_build_log")
            /\ UNCHANGED build_log
    /\ UNCHANGED <<api_key, deployment, requirements, max_iterations, frame, iteration, current_build_id,
                   status, test_result, fixed_files, raised>>

(***************************************************************************)
(* The file generator, actor_generator.py: generate(requirements).         *)
(* src/main.py comes from a text-generation call, the other files are      *)
(* templated from the requirements.                                        *)
(***************************************************************************)
MainPy == "src/main.py"
Paths ==
    {MainPy, ".actor/actor.json", ".actor/input_schema.json", "requirements.txt",
     "Dockerfile", "src/__init__.py", "src/__main__.py", "README.md"}

\* 'Anthropic API error during code generation: '
GenerationErrorPrefix ==
    <<65, 110, 116, 104, 114, 111, 112, 105, 99, 32, 65, 80, 73, 32, 101, 114,
      114, 111, 114, 32, 100, 117, 114, 105, 110, 103, 32, 99, 111, 100, 101, 32,
      103, 101, 110, 101, 114, 97, 116, 105, 111, 110, 58, 32>>
\* 'Claude returned empty code content'
EmptyCodeMessage ==
    <<67, 108, 97, 117, 100, 101, 32, 114, 101, 116, 117, 114, 110, 101, 100, 32,
      101, 109, 112, 116, 121, 32, 99, 111, 100, 101, 32, 99, 111, 110, 116, 101,
      110, 116>>
\* str(n) for n >= 0: the decimal digits, as character codes
RECURSIVE Decimal(_)
Decimal(n) == IF n < 10 THEN <<48 + n>> ELSE Decimal(n \div 10) \o <<48 + (n % 10)>>

\* 'Generated code is invalid or too short ('
ShortCodePrefix ==
    <<71, 101, 110, 101, 114, 97, 116, 101, 100, 32, 99, 111, 100, 101, 32, 105,
      115, 32, 105, 110, 118, 97, 108, 105, 100, 32, 111, 114, 32, 116, 111, 111,
      32, 115, 104, 111, 114, 116, 32, 40>>
\* ' chars)'
ShortCodeSuffix == <<32, 99, 104, 97, 114, 115, 41>>

\* f"Generated code is invalid or too short ({len(code)} chars)"
ShortCodeMessage(n) == ShortCodePrefix \o Decimal(n) \o ShortCodeSuffix

\* what the text-generation call raises
LlmExceptions == {[type |-> "Exception", msg |-> Text(2)]}

\* the length below which the generated code is rejected: len(code.strip()) < 100
MinCodeLength == 100

\* a response text of the text-generation call: `len` characters of content
\* (named by `code`) with `pad` whitespace characters around it, inside a
\* markdown code fence or not
LlmText(fence, pad, len, code) ==
    [kind |-> "text", fence |-> fence, pad |-> pad, len |-> len, code |-> code,
     exc |-> NoException]
LlmRaises(e) ==
    [kind |-> "raise", fence |-> FALSE, pad |-> 0, len |-> 0, code |-> "none",
     exc |-> e]

\* the texts tried that are rejected: no text, whitespace only, 18 characters,
\* 8 characters in a fence, 99 characters between two whitespace characters
RejectedTexts ==
    {LlmText(FALSE, 0, 0, "none"), LlmText(FALSE, 2, 0, "none"),
     LlmText(FALSE, 0, 18, "none"), LlmText(TRUE, 1, 8, "none"),
     LlmText(FALSE, 2, MinCodeLength - 1, "none")}

\* the text-generation call of _generate_main_py: it raises, or returns a text
LlmOutcomes ==
    {LlmText(FALSE, 0, MinCodeLength, "code1"), LlmText(TRUE, 1, MinCodeLength, "code2")}
    \cup RejectedTexts
    \cup {LlmRaises(e) : e \in LlmExceptions}

\* lines 122-123: `not code or len(code.strip()) == 0` of the text as received
EmptyText(llm) == ~llm.fence /\ llm.len = 0

\* lines 125-128: len(code) once the content of a fence is taken out and
\* stripped; a text without a fence is left as it is
ExtractedLength(llm) == IF llm.fence THEN llm.len ELSE llm.len + llm.pad

\* _generate_main_py, actor_generator.py 109-147: every failure is raised again
\* as Exception('Anthropic API error during code generation: ...')
generate_main_py(llm) ==
    IF llm.kind = "text" /\ ~EmptyText(llm) /\ llm.len >= MinCodeLength
    THEN [ok |-> TRUE, code |-> <<"llm", llm.code>>, exc |-> NoException]
    ELSE [ok |-> FALSE,
          code |-> <<>>,
          exc |-> [type |-> "Exception",
                   msg |-> GenerationErrorPrefix \o
                           (IF llm.kind = "raise" THEN llm.exc.msg
                            ELSE IF EmptyText(llm) THEN EmptyCodeMessage
                            ELSE ShortCodeMessage(ExtractedLength(llm)))]]

\* mutant: the generator hands back the FileSet of the repair before, when
\* there is one, instead of generating afresh
generate_Previous(llm) ==
    IF frame.fn = "repairs" /\ frame.pushed # <<>>
    THEN [ok |-> TRUE,
          files |-> frame.pushed[Len(frame.pushed)].files,
          exc |-> NoException]
    ELSE LET main == generate_main_py(llm) IN
         IF main.ok
         THEN [ok |-> TRUE,
               files |-> [p \in Paths |->
                            IF p = MainPy THEN main.code ELSE <<"template", p>>],
               exc |-> NoException]
         ELSE [ok |-> FALSE, files |-> NoFiles, exc |-> main.exc]

\* generate, actor_generator.py 39-75
generate(llm) ==
    LET main == generate_main_py(llm) IN
    IF main.ok
    THEN [ok |-> TRUE,
          files |-> [p \in Paths |-> IF p = MainPy THEN main.code ELSE <<"template", p>>],
          exc |-> NoException]
    ELSE [ok |-> FALSE, files |-> NoFiles, exc |-> main.exc]

\* mutant: 'apify' is inserted into the caller's list
generate_requirements_txt_InPlace(deps) ==
    LET all == IF \E i \in 1..Len(deps) : deps[i] = "apify"
               THEN deps ELSE <<"apify">> \o deps
    IN [lines |-> [i \in 1..Len(all) |->
                      IF all[i] = "apify" THEN "apify>=1.7.0" ELSE all[i]],
        dependencies |-> all]

\* _generate_requirements_txt, actor_generator.py 329-347: the lines of the file,
\* and requirements['dependencies'] as the call leaves it (['apify'] + deps
\* builds a new list, the caller's list is not touched)
generate_requirements_txt(deps) ==
    LET all == IF \E i \in 1..Len(deps) : deps[i] = "apify"
               THEN deps ELSE <<"apify">> \o deps
    IN [lines |-> [i \in 1..Len(all) |->
                      IF all[i] = "apify" THEN "apify>=1.7.0" ELSE all[i]],
        dependencies |-> deps]

\* the requirements object after a generate call that got past src/main.py
AfterGenerate(req) ==
    [req EXCEPT !.dependencies = generate_requirements_txt(@).dependencies]

(***************************************************************************)
(* The repair service's response text, as tokens: a code fence ```, a      *)
(* newline, a space, a word of prose, or a complete JSON document.         *)
(***************************************************************************)
JNone == [kind |-> "none", map |-> NoFiles]
Tok(t) == [t |-> t, v |-> JNone]
Fence == Tok("fence")
NL == Tok("nl")
SP == Tok("sp")
Word == Tok("word")
Json(v) == [t |-> "json", v |-> v]
JObject(m) == [kind |-> "object", map |-> m]
JArray == [kind |-> "array", map |-> NoFiles]
JNumber == [kind |-> "number", map |-> NoFiles]

IsSpace(tok) == tok.t \in {"nl", "sp"}

RECURSIVE LStrip(_)
LStrip(s) == IF s # <<>> /\ IsSpace(Head(s)) THEN LStrip(Tail(s)) ELSE s
RECURSIVE RStrip(_)
RStrip(s) ==
    IF s # <<>> /\ IsSpace(s[Len(s)]) THEN RStrip(SubSeq(s, 1, Len(s) - 1)) ELSE s
\* str.strip()
Strip(s) == RStrip(LStrip(s))

\* str.find('\n'): the position of the first newline, 0 when there is none
FindNewline(s) ==
    IF \E i \in 1..Len(s) : s[i] = NL
    THEN CHOOSE i \in 1..Len(s) : s[i] = NL /\ \A j \in 1..(i - 1) : s[j] # NL
    ELSE 0

\* 'Strip markdown if present', validator.py 359-365
StripMarkdown(text) ==
    IF Strip(text) # <<>> /\ Head(Strip(text)) = Fence
    THEN LET n == FindNewline(text)
             t1 == IF n # 0 THEN SubSeq(text, n + 1, Len(text)) ELSE text
         IN IF t1 # <<>> /\ t1[Len(t1)] = Fence
            THEN RStrip(SubSeq(t1, 1, Len(t1) - 1))
            ELSE t1
    ELSE text

\* json.loads: one JSON document with optional whitespace around it, else an error
JsonLoads(text) ==
    LET s == Strip(text) IN
    IF Len(s) = 1 /\ s[1].t = "json"
    THEN [ok |-> TRUE, v |-> s[1].v]
    ELSE [ok |-> FALSE, v |-> JNone]

\* contents a patch may carry
Fix1 == <<"fix", "f1">>
Fix2 == <<"fix", "f2">>
OnePath(p, c) == [q \in {p} |-> c]

PatchMaps ==
    {NoFiles, OnePath(MainPy, Fix1), OnePath("requirements.txt", Fix2),
     OnePath("notes/extra.txt", Fix1)}

\* the responses drawn in the loop: no text, prose, two documents that are not
\* an object, a patch of a generated path, a patch of a new path, a fenced patch
ResponseTexts ==
    {<<>>, <<Word>>, <<Json(JArray)>>, <<Json(JNumber)>>}
    \cup {<<Json(JObject(OnePath(p, Fix1)))>> : p \in {MainPy, "notes/extra.txt"}}
    \cup {<<Fence, Word, NL, Json(JObject(OnePath(MainPy, Fix1))), NL, Fence>>}

\* anthropic_client.messages.create(...): the response text, or an exception
ServiceOutcomes ==
    [ok : {TRUE}, text : ResponseTexts] \cup [ok : {FALSE}, text : {<<>>}]

\* mutant: a path the generation already holds keeps its generated content
Overlay_KeepFresh(all_files, patch) ==
    [p \in (DOMAIN all_files) \cup (DOMAIN patch) |->
        IF p \in DOMAIN all_files THEN all_files[p] ELSE patch[p]]

\* 'Apply the fixes': all_files[file_path] = fixed_content for every patch entry
Overlay(all_files, patch) ==
    [p \in (DOMAIN all_files) \cup (DOMAIN patch) |->
        IF p \in DOMAIN patch THEN patch[p] ELSE all_files[p]]

\* mutant: the except clause absorbs a failure of its own generate call
Fallback_Absorb(g2) ==
    [ok |-> TRUE, files |-> g2.files, fresh |-> g2.files, exc |-> NoException,
     patch_failed |-> TRUE]

\* mutant: the failure of the patch request is raised to the loop
Fallback_Propagate(g2) ==
    [ok |-> FALSE, files |-> NoFiles, fresh |-> NoFiles,
     exc |-> [type |-> "Exception", msg |-> Text(2)], patch_failed |-> TRUE]

\* the except clause of both repairs: 'Return original files if fix generation fails'
Fallback(g2) ==
    [ok |-> g2.ok, files |-> g2.files, fresh |-> g2.files, exc |-> g2.exc,
     patch_failed |-> TRUE]

\* the try block of both repairs once `fixes` is parsed and counted: generate,
\* then fixes.items() and the overlay
ApplyFixes(fixes, g1, g2) ==
    IF ~g1.ok THEN Fallback(g2)
    ELSE IF fixes.kind # "object" THEN Fallback(g2)
    ELSE [ok |-> TRUE,
          files |-> Overlay(g1.files, fixes.map),
          fresh |-> g1.files,
          exc |-> NoException,
          patch_failed |-> FALSE]

\* the try block of both repairs after the response text is in hand:
\* json.loads, len(), generate, the overlay; g1 and g2 are the outcomes of the
\* generate call of the try block and of the except clause
ApplyResponse(text, g1, g2) ==
    LET parsed == JsonLoads(text) IN
    IF ~parsed.ok THEN Fallback(g2)
    ELSE IF parsed.v.kind \notin {"object", "array"} THEN Fallback(g2)
    ELSE ApplyFixes(parsed.v, g1, g2)

\* the try block of a repair reaches its generate call: the text parsed and
\* len() of the parsed value is defined
TryGenerates(text) ==
    JsonLoads(text).ok /\ JsonLoads(text).v.kind \in {"object", "array"}

\* _fix_build_errors, validator.py 438-468
fix_build_errors(resp, g1, g2) ==
    IF ~resp.ok THEN Fallback(g2) ELSE ApplyResponse(resp.text, g1, g2)

\* _fix_runtime_errors, validator.py 345-385
fix_runtime_errors(resp, g1, g2) ==
    IF ~resp.ok THEN Fallback(g2) ELSE ApplyResponse(StripMarkdown(resp.text), g1, g2)

(***************************************************************************)
(* The repair steps of the loop body.                                      *)
(***************************************************************************)
\* the kind of answer the repair service gave (observation only)
ResponseKind(resp) ==
    IF ~resp.ok THEN "raise"
    ELSE IF resp.text = <<>> THEN "empty"
    ELSE IF \A i \in 1..Len(resp.text) : resp.text[i].t # "json" THEN "prose"
    ELSE IF \E i \in 1..Len(resp.text) : resp.text[i].t = "fence" THEN "fenced"
    ELSE "json"

\* mutant: the new build is triggered without the version update
AfterFix_SkipUpdate(r, step) ==
    IF r.ok
    THEN /\ fixed_files' = r.files
         /\ UNCHANGED <<test_result, build_log>>
         /\ pc' = "trigger"
         /\ hist' = [hist EXCEPT !.patch_failed = r.patch_failed,
                                 !.fresh = r.fresh,
                                 !.probe_kind = "none",
                                 !.probe_exc = NoException]
         /\ UNCHANGED result
    ELSE /\ result' = HandlerResult(deployment.actor_id, current_build_id, iteration,
                                    r.exc)
         /\ pc' = "done"
         /\ hist' = [hist EXCEPT !.patch_failed = r.patch_failed,
                                 !.fault = step,
                                 !.exc = r.exc]
         /\ UNCHANGED <<fixed_files, test_result, build_log>>

\* what the loop does with a repair's outcome r: the FileSet is kept for the
\* version update, or the exception reaches the loop's handler
AfterFix(r, step) ==
    IF r.ok
    THEN /\ fixed_files' = r.files
         /\ UNCHANGED <<test_result, build_log>>
         /\ pc' = "update"
         /\ hist' = [hist EXCEPT !.patch_failed = r.patch_failed,
                                 !.fresh = r.fresh,
                                 !.probe_kind = "none",
                                 !.probe_exc = NoException]
         /\ UNCHANGED result
    ELSE /\ result' = HandlerResult(deployment.actor_id, current_build_id, iteration,
                                    r.exc)
         /\ pc' = "done"
         /\ hist' = [hist EXCEPT !.patch_failed = r.patch_failed,
                                 !.fault = step,
                                 !.exc = r.exc]
         /\ UNCHANGED <<fixed_files, test_result, build_log>>

\* the generator outcomes drawn in the loop: one generated code, no text, a
\* short text, an exception
LoopLlmOutcomes ==
    {LlmText(FALSE, 0, MinCodeLength, "code1"), LlmText(FALSE, 0, 0, "none"),
     LlmText(FALSE, 0, 18, "none")}
    \cup {LlmRaises(e) : e \in LlmExceptions}

\* the generate call of a try block that was not reached
NotGenerated == [ok |-> FALSE, files |-> NoFiles, exc |-> NoException]

RepairStep(fn) ==
    IF fn = "_fix_build_errors" THEN "fix_build_errors" ELSE "fix_runtime_errors"

\* validator.py 95-99 and 345-365: _fix_runtime_errors up to the response of
\* the repair service; the try block goes on to generate, or the except
\* clause is entered
FixRuntimeErrors ==
    /\ pc = "fix_runtime"
    /\ \E resp \in ServiceOutcomes :
         /\ frame' = [fn |-> "_fix_runtime_errors", response |-> resp,
                       fixes |-> JsonLoads(StripMarkdown(resp.text)).v]
         /\ pc' = IF resp.ok /\ TryGenerates(StripMarkdown(resp.text))
                  THEN "fix_generate" ELSE "fix_fallback"
         /\ hist' = [hist EXCEPT !.patch_requests = @ + 1,
                                 !.response = ResponseKind(resp)]
    /\ UNCHANGED <<api_key, deployment, requirements, max_iterations, iteration,
                   current_build_id, status, test_result, build_log, fixed_files,
                   result, raised>>

\* validator.py 136-140 and 438-454: _fix_build_errors up to the response of the
\* repair service
FixBuildErrors ==
    /\ pc = "fix_build"
    /\ \E resp \in ServiceOutcomes :
         /\ frame' = [fn |-> "_fix_build_errors", response |-> resp,
                       fixes |-> JsonLoads(resp.text).v]
         /\ pc' = IF resp.ok /\ TryGenerates(resp.text)
                  THEN "fix_generate" ELSE "fix_fallback"
         /\ hist' = [hist EXCEPT !.patch_requests = @ + 1,
                                 !.response = ResponseKind(resp)]
    /\ UNCHANGED <<api_key, deployment, requirements, max_iterations, iteration,
                   current_build_id, status, test_result, build_log, fixed_files,
                   result, raised>>

\* validator.py 373-380 and 456-463: generate in the try block, then the
\* overlay; the repair returns the patched FileSet, or the except clause is
\* entered
GenerateFresh ==
    /\ pc = "fix_generate"
    /\ \E l1 \in LoopLlmOutcomes :
         LET g1 == generate(l1)
             r == ApplyFixes(frame.fixes, g1, NotGenerated)
         IN  /\ IF r.patch_failed
                THEN /\ pc' = "fix_fallback"
                     /\ UNCHANGED <<frame, hist, result, fixed_files, test_result,
                                    build_log>>
                ELSE /\ AfterFix(r, RepairStep(frame.fn))
                     /\ frame' = NoFrame
             /\ requirements' = IF g1.ok THEN AfterGenerate(requirements)
                                ELSE requirements
    /\ UNCHANGED <<api_key, deployment, max_iterations, iteration, current_build_id,
                   status, raised>>

\* validator.py 382-385 and 465-468: generate in the except clause; the repair
\* returns the regenerated FileSet, or the exception leaves the repair
FallbackGenerate ==
    /\ pc = "fix_fallback"
    /\ \E l2 \in LoopLlmOutcomes :
         LET g2 == generate(l2) IN
         /\ AfterFix(Fallback(g2), RepairStep(frame.fn))
         /\ frame' = NoFrame
         /\ requirements' = IF g2.ok THEN AfterGenerate(requirements)
                            ELSE requirements
    /\ UNCHANGED <<api_key, deployment, max_iterations, iteration, current_build_id,
                   status, raised>>

\* validator.py 101-106 and 143-148: update_actor_version(actor_id, '0.1', fixed_files)
UpdateActorVersion ==
    /\ pc = "update"
    /\ \/ /\ pc' = "trigger"
          /\ hist' = [hist EXCEPT !.updates = @ + 1]
          /\ UNCHANGED result
       \/ \E e \in Exceptions : Catch(e, "update_actor_version")
    /\ UNCHANGED <<api_key, deployment, requirements, max_iterations, frame, iteration, current_build_id,
                   status, test_result, build_log, fixed_files, raised>>

\* the id the platform gives the n-th build the loop triggers
NewBuildId(n) == InitialBuild + n

\* mutant: the pass ends without iteration += 1
TriggerBuild_NoIncrement ==
    /\ pc = "trigger"
    /\ \/ /\ current_build_id' = NewBuildId(hist.triggers + 1)
          /\ iteration' = iteration
          /\ AtLoopHead(iteration)
          /\ hist' = [hist EXCEPT !.triggers = @ + 1,
                                  !.patch_failed = FALSE,
                                  !.fresh = NoFiles]
       \/ /\ \E e \in Exceptions : Catch(e, "trigger_build")
          /\ UNCHANGED <<current_build_id, iteration>>
    /\ UNCHANGED <<api_key, deployment, requirements, max_iterations, frame, status,
                   test_result, build_log, fixed_files, raised>>

\* mutant: the counter is set to 1 after a repair instead of advanced by one
TriggerBuild_IterationOne ==
    /\ pc = "trigger"
    /\ \/ /\ current_build_id' = NewBuildId(hist.triggers + 1)
          /\ iteration' = 1
          /\ AtLoopHead(1)
          /\ hist' = [hist EXCEPT !.triggers = @ + 1,
                                  !.patch_failed = FALSE,
                                  !.fresh = NoFiles]
       \/ /\ \E e \in Exceptions : Catch(e, "trigger_build")
          /\ UNCHANGED <<current_build_id, iteration>>
    /\ UNCHANGED <<api_key, deployment, requirements, max_iterations, frame, status,
                   test_result, build_log, fixed_files, raised>>

\* validator.py 108-114 and 150-155: _trigger_build, the new current build id,
\* iteration += 1, and back to the while condition
TriggerBuild ==
    /\ pc = "trigger"
    /\ \/ /\ current_build_id' = NewBuildId(hist.triggers + 1)
          /\ iteration' = iteration + 1
          /\ AtLoopHead(iteration + 1)
          /\ hist' = [hist EXCEPT !.triggers = @ + 1,
                                  !.patch_failed = FALSE,
                                  !.fresh = NoFiles]
       \/ /\ \E e \in Exceptions : Catch(e, "trigger_build")
          /\ UNCHANGED <<current_build_id, iteration>>
    /\ UNCHANGED <<api_key, deployment, requirements, max_iterations, frame, status, test_result,
                   build_log, fixed_files, raised>>

Next ==
    \/ Enter
    \/ WaitForBuild
    \/ Sleep
    \/ TestActorRun
    \/ FetchRunLog
    \/ ReadDataset
    \/ GetBuildLog
    \/ FixRuntimeErrors
    \/ FixBuildErrors
    \/ GenerateFresh
    \/ FallbackGenerate
    \/ UpdateActorVersion
    \/ TriggerBuild

Spec == Init /\ [][Next]_vars

(***************************************************************************)
(* A helper called on its own.  The call's arguments are in requirements   *)
(* and frame; the variables of validate_and_fix stay as they are.          *)
(***************************************************************************)
\* how many input fields the requirements of such a call declare
MaxFields == 2

HelperInit ==
    /\ api_key = TRUE
    /\ deployment = [actor_id |-> "actorA", build_id |-> InitialBuild]
    /\ max_iterations = 1
    /\ iteration = 0
    /\ current_build_id = InitialBuild
    /\ status = "none"
    /\ test_result = NoTestResult
    /\ build_log = <<>>
    /\ fixed_files = NoFiles
    /\ result = NoResult
    /\ raised = NoException
    /\ hist = InitHist
    /\ pc = "call"

HelperUnchanged ==
    UNCHANGED <<api_key, deployment, max_iterations, iteration, current_build_id,
                status, test_result, build_log, fixed_files, result, raised, hist>>

(***************************************************************************)
(* _test_actor_run, validator.py 213-219: the test input.                  *)
(***************************************************************************)
FieldNames == {"a", "b"}
DefaultEntries == {NoDefault, NullDefault, Value("x"), Value("")}
Fields == {Field(n, r, d) : n \in FieldNames, r \in BOOLEAN, d \in DefaultEntries}
FieldLists == UNION {[1..n -> Fields] : n \in 0..MaxFields}

\* field.get('default'): None when the key is missing
GetDefault(field) ==
    IF field.default.k = "absent" THEN NullDefault ELSE field.default

\* mutant: the default is tested for truth
HasDefault_Truthy(default_value) ==
    default_value.k = "value" /\ default_value.v # ""

\* 'if default_value is not None'
HasDefault(default_value) == default_value.k # "null"

\* test_input = {} and the loop over the declared fields, in their order
RECURSIVE test_input(_)
test_input(input_fields) ==
    IF input_fields = <<>> THEN [n \in {} |-> ""]
    ELSE LET before == test_input(SubSeq(input_fields, 1, Len(input_fields) - 1))
             field == input_fields[Len(input_fields)]
             default_value == GetDefault(field)
         IN IF HasDefault(default_value)
            THEN [n \in (DOMAIN before) \cup {field.name} |->
                    IF n = field.name THEN default_value.v ELSE before[n]]
            ELSE before

InitTestInput ==
    /\ HelperInit
    /\ requirements \in [input_fields : FieldLists, dependencies : {<<"requests">>}]
    /\ frame = [fn |-> "_test_actor_run", test_input |-> test_input(<<>>)]

PrepareTestInput ==
    /\ pc = "call"
    /\ frame.fn = "_test_actor_run"
    /\ frame' = [frame EXCEPT !.test_input = test_input(requirements.input_fields)]
    /\ pc' = "called"
    /\ UNCHANGED requirements
    /\ HelperUnchanged

SpecTestInput == InitTestInput /\ [][PrepareTestInput]_vars

(***************************************************************************)
(* _fix_build_errors and _fix_runtime_errors called on their own, over a   *)
(* wider set of responses than the loop's.                                 *)
(***************************************************************************)
\* a JSON value that is not a string, where a file's content is expected
NotText == <<"json-number", "7">>
PatchPaths == {MainPy, "requirements.txt", "notes/extra.txt"}
PatchContents == {Fix1, Fix2, NotText}
\* every JSON object over these paths and contents
WidePatchMaps == UNION {[P -> PatchContents] : P \in SUBSET PatchPaths}

WideResponseTexts ==
    {<<>>, <<Word>>, <<Json(JArray)>>, <<Json(JNumber)>>, <<Word, Json(JArray)>>}
    \cup {<<Json(JObject(m))>> : m \in WidePatchMaps}
    \cup {<<NL, Json(JObject(m)), NL>> : m \in PatchMaps}
    \cup {<<Fence, Word, NL, Json(JObject(m)), NL, Fence>> : m \in PatchMaps}
    \cup {<<Fence, NL, Json(JArray), NL, Fence>>}

WideServiceOutcomes ==
    [ok : {TRUE}, text : WideResponseTexts] \cup [ok : {FALSE}, text : {<<>>}]

InitRepair ==
    /\ HelperInit
    /\ requirements \in Requirements
    /\ frame \in [fn : {"_fix_build_errors", "_fix_runtime_errors"},
                   response : WideServiceOutcomes,
                   llm1 : LlmOutcomes,
                   llm2 : LlmOutcomes,
                   ret : {Fallback([ok |-> FALSE, files |-> NoFiles,
                                    exc |-> NoException])}]

\* validator.py 438-454: _fix_build_errors up to the response of the repair
\* service
RepairBuild ==
    /\ pc = "call"
    /\ frame.fn = "_fix_build_errors"
    /\ pc' = IF frame.response.ok /\ TryGenerates(frame.response.text)
             THEN "fix_generate" ELSE "fix_fallback"
    /\ UNCHANGED <<frame, requirements>>
    /\ HelperUnchanged

\* validator.py 345-365: _fix_runtime_errors up to the response of the repair
\* service, its fences stripped
RepairRuntime ==
    /\ pc = "call"
    /\ frame.fn = "_fix_runtime_errors"
    /\ pc' = IF frame.response.ok /\ TryGenerates(StripMarkdown(frame.response.text))
             THEN "fix_generate" ELSE "fix_fallback"
    /\ UNCHANGED <<frame, requirements>>
    /\ HelperUnchanged

\* validator.py 373-380 and 456-463: generate in the try block and the overlay
RepairGenerate ==
    /\ pc = "fix_generate"
    /\ LET g1 == generate(frame.llm1)
           r == IF frame.fn = "_fix_build_errors"
                THEN fix_build_errors(frame.response, g1, NotGenerated)
                ELSE fix_runtime_errors(frame.response, g1, NotGenerated)
       IN  /\ IF r.patch_failed
              THEN pc' = "fix_fallback" /\ UNCHANGED frame
              ELSE pc' = "called" /\ frame' = [frame EXCEPT !.ret = r]
           /\ requirements' = IF g1.ok THEN AfterGenerate(requirements)
                              ELSE requirements
    /\ HelperUnchanged

\* validator.py 382-385 and 465-468: generate in the except clause
RepairFallback ==
    /\ pc = "fix_fallback"
    /\ LET g2 == generate(frame.llm2) IN
       /\ frame' = [frame EXCEPT !.ret = Fallback(g2)]
       /\ requirements' = IF g2.ok THEN AfterGenerate(requirements)
                          ELSE requirements
    /\ pc' = "called"
    /\ HelperUnchanged

NextRepair == RepairBuild \/ RepairRuntime \/ RepairGenerate \/ RepairFallback

SpecRepair == InitRepair /\ [][NextRepair]_vars

(***************************************************************************)
(* The repairs of successive iterations of one run, called one after the   *)
(* other: frame.pushed holds, per repair, the response of the repair       *)
(* service and the FileSet the repair returned.                            *)
(***************************************************************************)
\* how many repairs follow each other
MaxRepairs == 2

\* the responses drawn by these repairs: those of the loop and every patch of
\* PatchMaps
RepairsServiceOutcomes ==
    ServiceOutcomes \cup [ok : {TRUE}, text : {<<Json(JObject(m))>> : m \in PatchMaps}]

InitRepairs ==
    /\ HelperInit
    /\ requirements \in Requirements
    /\ frame = [fn |-> "repairs", pushed |-> <<>>, kind |-> "none",
                response |-> [ok |-> FALSE, text |-> <<>>]]

\* what the repair in progress pushes, or the end of the run when it raises
RepairReturns(r) ==
    IF r.ok
    THEN /\ frame' = [frame EXCEPT
                        !.pushed = Append(@, [response |-> frame.response,
                                               files |-> r.files])]
         /\ pc' = "call"
    ELSE /\ pc' = "called"
         /\ UNCHANGED frame

\* one more repair, of either kind, up to the response of the repair service
RepairAgain ==
    /\ pc = "call"
    /\ frame.fn = "repairs"
    /\ Len(frame.pushed) < MaxRepairs
    /\ \E kind \in {"_fix_build_errors", "_fix_runtime_errors"},
          resp \in RepairsServiceOutcomes :
         /\ frame' = [frame EXCEPT !.kind = kind, !.response = resp]
         /\ pc' = IF /\ resp.ok
                     /\ TryGenerates(IF kind = "_fix_build_errors" THEN resp.text
                                     ELSE StripMarkdown(resp.text))
                  THEN "fix_generate" ELSE "fix_fallback"
    /\ UNCHANGED requirements
    /\ HelperUnchanged

\* generate in the try block of the repair in progress, and the overlay
RepairAgainGenerate ==
    /\ pc = "fix_generate"
    /\ \E l1 \in LlmOutcomes :
         LET g1 == generate(l1)
             r == IF frame.kind = "_fix_build_errors"
                  THEN fix_build_errors(frame.response, g1, NotGenerated)
                  ELSE fix_runtime_errors(frame.response, g1, NotGenerated)
         IN  /\ IF r.patch_failed
                THEN pc' = "fix_fallback" /\ UNCHANGED frame
                ELSE RepairReturns(r)
             /\ requirements' = IF g1.ok THEN AfterGenerate(requirements)
                                ELSE requirements
    /\ HelperUnchanged

\* generate in the except clause of the repair in progress
RepairAgainFallback ==
    /\ pc = "fix_fallback"
    /\ \E l2 \in LlmOutcomes :
         LET g2 == generate(l2) IN
         /\ RepairReturns(Fallback(g2))
         /\ requirements' = IF g2.ok THEN AfterGenerate(requirements)
                            ELSE requirements
    /\ HelperUnchanged

NextRepairs == RepairAgain \/ RepairAgainGenerate \/ RepairAgainFallback

SpecRepairs == InitRepairs /\ [][NextRepairs]_vars

(***************************************************************************)
(* The method with a client that may report a non-terminal status at every *)
(* poll.  Each awaited call returns or raises, so a step that stays        *)
(* possible is eventually taken.                                           *)
(***************************************************************************)
\* the largest max_iterations of these calls
MaxLiveIterations == 2

\* a call of the method on a constructed validator (the key is set)
InitLive ==
    /\ Init
    /\ api_key
    /\ deployment.actor_id = "actorA"
    /\ max_iterations <= MaxLiveIterations

\* wait_for_build reports a non-terminal status once more; hist counts the
\* re-polls up to MaxRepolls only
WaitForBuildAgain ==
    /\ pc = "poll"
    /\ hist.repolls = MaxRepolls
    /\ \E s \in OtherStatuses :
         /\ status' = s
         /\ pc' = PcAfterBuild(s)
    /\ hist' = [hist EXCEPT !.response = "none"]
    /\ UNCHANGED <<api_key, deployment, requirements, max_iterations, frame,
                   iteration, current_build_id, test_result, build_log,
                   fixed_files, result, raised>>

NextLive == Next \/ WaitForBuildAgain

SpecLive == InitLive /\ [][NextLive]_vars /\ WF_vars(NextLive)

(***************************************************************************)
(* The log section of the prompt of a repair request.  _fix_build_errors   *)
(* puts build_log[-2000:] into the user prompt (validator.py 425),         *)
(* _fix_runtime_errors puts run_log[-3000:] (validator.py 326); the prompt *)
(* is the content of the one message passed to messages.create.  frame     *)
(* holds the helper called, its log argument and the log text the service  *)
(* received.                                                               *)
(***************************************************************************)
BuildLogTail == 2000
RunLogTail == 3000

\* the log lengths tried lie within LogSlack of each tail length
LogSlack == 6

PromptLogLengths ==
    {0, 3}
      \cup (BuildLogTail - LogSlack .. BuildLogTail + LogSlack)
      \cup (RunLogTail - LogSlack .. RunLogTail + LogSlack)

NotSent == <<-1>>

\* mutant: the start of the log is kept
build_log_section_Head(log) ==
    IF Len(log) <= BuildLogTail THEN log ELSE SubSeq(log, 1, BuildLogTail)

\* {build_log[-2000:]}
build_log_section(log) == LastChars(log, BuildLogTail)

\* {run_log[-3000:]}
run_log_section(log) == LastChars(log, RunLogTail)

InitPrompt ==
    /\ HelperInit
    /\ requirements \in Requirements
    /\ frame \in [fn : {"_fix_build_errors", "_fix_runtime_errors"},
                   log : {Text(n) : n \in PromptLogLengths},
                   sent : {NotSent}]

PromptBuild ==
    /\ pc = "call"
    /\ frame.fn = "_fix_build_errors"
    /\ frame' = [frame EXCEPT !.sent = build_log_section(frame.log)]
    /\ pc' = "called"
    /\ UNCHANGED requirements
    /\ HelperUnchanged

PromptRuntime ==
    /\ pc = "call"
    /\ frame.fn = "_fix_runtime_errors"
    /\ frame' = [frame EXCEPT !.sent = run_log_section(frame.log)]
    /\ pc' = "called"
    /\ UNCHANGED requirements
    /\ HelperUnchanged

NextPrompt == PromptBuild \/ PromptRuntime

SpecPrompt == InitPrompt /\ [][NextPrompt]_vars

(***************************************************************************)
(* Two calls of validate_and_fix, for different actors, running as         *)
(* coroutines of one event loop: a call runs until it awaits a             *)
(* collaborator, and is resumed with the collaborator's response (or       *)
(* exception) at any later time, so the calls' steps interleave at the     *)
(* awaits in every order.  The module-level function (validator.py         *)
(* 471-491) builds a new ActorValidator for every call; the loop's state   *)
(* is the locals of the method's activation (46-52).  A world holds the    *)
(* objects the calls can reach: the requirements dict (one object, handed  *)
(* to both calls), the heap of validators and their clients, the version   *)
(* of each actor on the platform, the activation of each call, and what    *)
(* each call is asking of the collaborator it awaits.  frame holds the     *)
(* world the two calls run in and, for each call, a world in which that    *)
(* call is given the same responses with no other call running.            *)
(***************************************************************************)
\* the max_iterations of the two calls are at least 1 and sum to at most this
TwoRunIterations == 3

Calls == ActorIds

\* a call that has not started
NotEntered == [pc |-> "start"]

\* the awaits of the loop, validator.py 57, 102, 109, 120, 143, 150 and 160, of
\* the probe, 224, 237 and 254, and of the repairs, 346 and 439 (the repair
\* service), 373 and 456 (generate), 385 and 468 (generate in the except clause)
RunAwaits ==
    {"poll", "sleep", "probe", "probe_log", "probe_dataset", "get_log", "fix_build",
     "fix_runtime", "fix_generate", "fix_fallback", "update", "trigger"}

\* the awaits counted per call: its probes, its patch requests, its version
\* updates and its builds
Counted == {"probe", "fix_build", "fix_runtime", "update", "trigger"}

\* the collaborator responses a call can be resumed with at position `at`
TwoRunException == [type |-> "Exception", msg |-> Text(3)]
TwoRunTimeout == [type |-> "TimeoutError", msg |-> Text(2)]
TwoRunCalls == {o \in CallOutcomes : o.ok /\ o.has_dataset}
TwoRunDatasets == {d \in DatasetOutcomes : d.ok /\ d.has_count /\ d.itemCount <= 1}
TwoRunPatches ==
    {[ok |-> TRUE, text |-> <<Json(JObject(OnePath(MainPy, Fix1)))>>],
     [ok |-> FALSE, text |-> <<>>]}
TwoRunGenerated ==
    {generate(llm) : llm \in {o \in LoopLlmOutcomes : o.kind = "raise" \/ o.code = "code1"}}

Responses(at, repolls) ==
    IF at = "poll"
    THEN [at : {at}, ok : {TRUE},
          v : {s \in {"SUCCEEDED", "FAILED", "RUNNING"} :
                  s \notin TerminalStatuses => repolls < MaxRepolls}]
         \cup [at : {at}, ok : {FALSE}, v : {TwoRunTimeout}]
    ELSE IF at = "sleep" THEN [at : {at}, ok : {TRUE}, v : {"None"}]
    ELSE IF at = "probe" THEN [at : {at}, ok : {TRUE}, v : TwoRunCalls]
    ELSE IF at = "probe_log"
    THEN [at : {at}, ok : {TRUE}, v : {[ok |-> TRUE, text |-> Text(3)]}]
    ELSE IF at = "probe_dataset" THEN [at : {at}, ok : {TRUE}, v : TwoRunDatasets]
    ELSE IF at = "get_log"
    THEN [at : {at}, ok : {TRUE}, v : {Text(3)}]
         \cup [at : {at}, ok : {FALSE}, v : {TwoRunException}]
    ELSE IF at \in {"fix_build", "fix_runtime"}
    THEN [at : {at}, ok : {TRUE}, v : TwoRunPatches]
    ELSE IF at \in {"fix_generate", "fix_fallback"}
    THEN [at : {at}, ok : {TRUE}, v : TwoRunGenerated]
    ELSE IF at = "update"
    THEN [at : {at}, ok : {TRUE}, v : {"None"}]
         \cup [at : {at}, ok : {FALSE}, v : {TwoRunException}]
    ELSE IF at = "trigger"
    THEN [at : {at}, ok : {FALSE}, v : {TwoRunException}]
    ELSE {}

\* validator.py 46-52: the locals on entry, then the while condition
EnterRun(args, self) ==
    LET run == [pc |-> "poll",
                self |-> self,
                actor_id |-> args.deployment.actor_id,
                max_iterations |-> args.max_iterations,
                iteration |-> 0,
                current_build_id |-> args.deployment.build_id,
                status |-> "none",
                test_result |-> NoTestResult,
                build_log |-> <<>>,
                fixed_files |-> NoFiles,
                callee |-> NoFrame,
                repolls |-> 0,
                steps |-> [at \in Counted |-> 0],
                result |-> NoResult]
    IN  IF LoopGuard(0, args.max_iterations) THEN run
        ELSE [run EXCEPT !.pc = "done",
                         !.result = FallThroughResult(run.actor_id, run.current_build_id,
                                                      run.max_iterations)]

Returns(run, r) == [run EXCEPT !.pc = "done", !.result = r]

\* validator.py 162-184: the except clauses
Handles(run, e) ==
    Returns(run, HandlerResult(run.actor_id, run.current_build_id, run.iteration, e))

\* validator.py 67-99: the probe has returned tr to the loop
Probed(run, tr) ==
    LET r == [run EXCEPT !.test_result = tr, !.callee = NoFrame] IN
    IF tr.success
    THEN Returns(r, SuccessResult(r.actor_id, r.current_build_id, r.iteration, tr))
    ELSE IF LastIteration(r.iteration, r.max_iterations)
    THEN Returns(r, PartialSuccessResult(r.actor_id, r.current_build_id,
                                         r.iteration, tr))
    ELSE [r EXCEPT !.pc = "fix_runtime"]

\* validator.py 95-99 and 136-140: a repair has returned its FileSet to the
\* loop, or its exception reaches the loop's handler
Repaired(run, fix) ==
    LET r == [run EXCEPT !.callee = NoFrame] IN
    IF fix.ok THEN [r EXCEPT !.fixed_files = fix.files, !.pc = "update"]
    ELSE Handles(r, fix.exc)

\* validator.py 54-160: the activation `run`, suspended at run.pc, is resumed
\* with the response ev and runs to its next await or to its return
Resume(run, ev) ==
    IF run.pc # ev.at THEN run
    ELSE IF ~ev.ok THEN Handles(run, ev.v)
    ELSE LET r == IF ev.at \in Counted THEN [run EXCEPT !.steps[ev.at] = @ + 1]
                   ELSE run IN
    IF r.pc = "poll"
    THEN [r EXCEPT !.status = ev.v,
                   !.pc = PcAfterBuild(ev.v),
                   !.repolls = IF PcAfterBuild(ev.v) = "sleep" THEN @ + 1 ELSE @]
    ELSE IF r.pc = "sleep"
    THEN [r EXCEPT !.pc = "poll"]
    ELSE IF r.pc = "probe"
    THEN IF ~ev.v.ok
         THEN Probed(r, test_actor_run(ev.v, LogNotFetched, DatasetNotRead))
         ELSE [r EXCEPT !.callee = [fn |-> "_test_actor_run", run |-> ev.v,
                                    log |-> LogNotFetched],
                        !.pc = "probe_log"]
    ELSE IF r.pc = "probe_log"
    THEN IF r.callee.run.status # "SUCCEEDED" \/ ~r.callee.run.has_dataset
         THEN Probed(r, test_actor_run(r.callee.run, ev.v, DatasetNotRead))
         ELSE [r EXCEPT !.callee.log = ev.v, !.pc = "probe_dataset"]
    ELSE IF r.pc = "probe_dataset"
    THEN Probed(r, test_actor_run(r.callee.run, r.callee.log, ev.v))
    ELSE IF r.pc = "get_log"
    THEN IF LastIteration(r.iteration, r.max_iterations)
         THEN Returns([r EXCEPT !.build_log = ev.v],
                      BuildFailedResult(r.actor_id, r.current_build_id, r.iteration,
                                        r.max_iterations, ev.v))
         ELSE [r EXCEPT !.build_log = ev.v, !.pc = "fix_build"]
    ELSE IF r.pc \in {"fix_build", "fix_runtime"}
    THEN [r EXCEPT !.callee = [fn |-> IF r.pc = "fix_build" THEN "_fix_build_errors"
                                      ELSE "_fix_runtime_errors",
                               response |-> ev.v],
                   !.pc = IF /\ ev.v.ok
                             /\ TryGenerates(IF r.pc = "fix_build" THEN ev.v.text
                                             ELSE StripMarkdown(ev.v.text))
                          THEN "fix_generate" ELSE "fix_fallback"]
    ELSE IF r.pc = "fix_generate"
    THEN LET fix == IF r.callee.fn = "_fix_build_errors"
                    THEN fix_build_errors(r.callee.response, ev.v, NotGenerated)
                    ELSE fix_runtime_errors(r.callee.response, ev.v, NotGenerated)
         IN  IF fix.patch_failed THEN [r EXCEPT !.pc = "fix_fallback"]
             ELSE Repaired(r, fix)
    ELSE IF r.pc = "fix_fallback"
    THEN Repaired(r, Fallback(ev.v))
    ELSE IF r.pc = "update"
    THEN [r EXCEPT !.pc = "trigger"]
    ELSE IF r.pc = "trigger"
    THEN LET n == [r EXCEPT !.current_build_id = ev.v, !.iteration = @ + 1]
         IN  IF LoopGuard(n.iteration, n.max_iterations)
             THEN [n EXCEPT !.pc = "poll"]
             ELSE Returns(n, FallThroughResult(n.actor_id, n.current_build_id,
                                               n.max_iterations))
    ELSE run

\* validator.py 18-28 and 490: ActorValidator(anthropic_api_key) builds a new
\* AsyncAnthropic, a new ActorDeployer and a new ActorGenerator, whose __init__
\* (actor_generator.py 22) builds an AsyncAnthropic of its own and keeps it as
\* .client; the three are kept as attributes of the new validator, the last
\* object of the heap returned.  An attribute holds the place of its object
\* in the heap, 0 where the class has no such attribute.
NewValidator(heap) ==
    LET n == Len(heap)
        object(class) == [class |-> class, anthropic_client |-> 0, deployer |-> 0,
                          generator |-> 0, client |-> 0]
    IN  heap \o <<object("AsyncAnthropic"),
                  object("ActorDeployer"),
                  object("AsyncAnthropic"),
                  [object("ActorGenerator") EXCEPT !.client = n + 3],
                  [object("ActorValidator") EXCEPT !.anthropic_client = n + 1,
                                                  !.deployer = n + 2,
                                                  !.generator = n + 4]>>

\* what a call suspended at an await has asked of the collaborator it awaits:
\* validator.py 59, 160, 224, 237, 254, 120, 439, 346, 456 (373, 385, 468), 144
\* (102) and 151 (109), with the arguments that come from the call's state
\* and from the requirements dict; the prompts of the repairs (320-326 and
\* 419-425) carry the requirements and the tail of the log
Request(run, req) ==
    IF run.pc = "poll"
    THEN <<"wait_for_build", run.actor_id, run.current_build_id>>
    ELSE IF run.pc = "sleep" THEN <<"sleep">>
    ELSE IF run.pc = "probe"
    THEN <<"actor.call", run.actor_id, test_input(req.input_fields)>>
    ELSE IF run.pc = "probe_log" THEN <<"log.get">>
    ELSE IF run.pc = "probe_dataset" THEN <<"dataset.get">>
    ELSE IF run.pc = "get_log"
    THEN <<"get_build_log", run.actor_id, run.current_build_id>>
    ELSE IF run.pc = "fix_build"
    THEN <<"messages.create", req, build_log_section(run.build_log)>>
    ELSE IF run.pc = "fix_runtime"
    THEN <<"messages.create", req, run_log_section(run.test_result.log)>>
    ELSE IF run.pc \in {"fix_generate", "fix_fallback"} THEN <<"generate", req>>
    ELSE IF run.pc = "update"
    THEN <<"update_actor_version", run.actor_id, run.fixed_files>>
    ELSE IF run.pc = "trigger" THEN <<"_trigger_build", run.actor_id>>
    ELSE <<"return">>

\* a world in which no call has started
EmptyWorld(req) ==
    [requirements |-> req,
     heap |-> <<>>,
     versions |-> [a \in ActorIds |-> NoFiles],
     runs |-> [c \in Calls |-> NotEntered],
     asked |-> [c \in Calls |-> <<>>]]

\* validator.py 486-491 and 46-57: call c starts in world w: its validator is
\* built and the method runs to its first await
CallIn(w, c, args) ==
    LET heap == NewValidator(w.heap)
        run == EnterRun(args, Len(heap))
    IN  [w EXCEPT !.heap = heap,
                  !.runs[c] = run,
                  !.asked[c] = Request(run, w.requirements)]

\* call c, suspended in world w, is resumed with the response ev: a generate
\* call that returned has gone through _generate_requirements_txt with the
\* requirements dict, an update that returned has replaced the version of the
\* call's actor, and the call stands at its next await or has returned
ResumeIn(w, c, ev) ==
    LET old == w.runs[c]
        run == Resume(old, ev)
        req == IF ev.at \in {"fix_generate", "fix_fallback"} /\ ev.ok /\ ev.v.ok
               THEN AfterGenerate(w.requirements) ELSE w.requirements
    IN  [w EXCEPT !.requirements = req,
                  !.runs[c] = run,
                  !.versions[old.actor_id] = IF ev.at = "update" /\ ev.ok
                                             THEN old.fixed_files ELSE @,
                  !.asked[c] = Request(run, req)]

InitTwoRuns ==
    /\ HelperInit
    /\ requirements \in Requirements
    /\ \E m \in {f \in [Calls -> 1..TwoRunIterations] :
                    f["actorA"] + f["actorB"] <= TwoRunIterations} :
         frame = [fn |-> "two_runs",
                  args |-> [c \in Calls |->
                              [deployment |-> [actor_id |-> c, build_id |-> InitialBuild],
                               max_iterations |-> m[c]]],
                  world |-> EmptyWorld(requirements),
                  alone |-> [c \in Calls |-> EmptyWorld(requirements)],
                  entered |-> {},
                  builds |-> 0]

\* validator.py 486-491 and 46-52: a call starts, in the common world and in
\* the world it has to itself
RunEnter(c) ==
    /\ pc = "call"
    /\ frame.fn = "two_runs"
    /\ c \notin frame.entered
    /\ frame' = [frame EXCEPT !.entered = @ \cup {c},
                              !.world = CallIn(@, c, frame.args[c]),
                              !.alone[c] = CallIn(@, c, frame.args[c])]
    /\ UNCHANGED <<pc, requirements>>
    /\ HelperUnchanged

\* the event loop resumes call c with the response to the call it awaits; a
\* build triggered gets the platform's next build id; requirements is the
\* dict both calls were handed, as the common world leaves it
RunResume(c) ==
    /\ pc = "call"
    /\ frame.fn = "two_runs"
    /\ c \in frame.entered
    /\ LET run == frame.world.runs[c] IN
       \E ev \in Responses(run.pc, IF run.pc = "poll" THEN run.repolls ELSE 0)
                   \cup (IF run.pc = "trigger"
                         THEN {[at |-> "trigger", ok |-> TRUE,
                                v |-> NewBuildId(frame.builds + 1)]}
                         ELSE {}) :
         /\ frame' = [frame EXCEPT !.world = ResumeIn(@, c, ev),
                                   !.alone[c] = ResumeIn(@, c, ev),
                                   !.builds = IF ev.at = "trigger" /\ ev.ok
                                              THEN @ + 1 ELSE @]
         /\ requirements' = ResumeIn(frame.world, c, ev).requirements
    /\ UNCHANGED pc
    /\ HelperUnchanged

NextTwoRuns == \E c \in Calls : RunEnter(c) \/ RunResume(c)

SpecTwoRuns == InitTwoRuns /\ [][NextTwoRuns]_vars

(***************************************************************************)
(* The orchestrator, main.py 30-177: main().  frame holds main's locals    *)
(* (actor_input, openai_key, actor_files, deployed), the stage functions   *)
(* called and returned so far, the number of set_value calls that          *)
(* returned, the records given to push_data, the exception caught, and the *)
(* activation of the validate_and_fix call main awaits (run);              *)
(* api_key is ANTHROPIC_API_KEY, requirements what analyze_intent returns, *)
(* deployment what deploy_actor returns, result the local `result`.        *)
(***************************************************************************)

\* Actor.get_input(): None, {}, an input without 'userPrompt' (or with an
\* empty one), an input with a prompt
ActorInputs == {"none", "empty", "no_prompt", "prompt"}

\* what a collaborator of main raises
MainExceptions ==
    [type : {"ValueError"}, msg : {<<"invalid">>}]
    \cup [type : {"Exception"}, msg : {Text(0), Text(3)}]

AnthropicKeyRequired ==
    [type |-> "ValueError",
     msg |-> <<"ANTHROPIC_API_KEY environment variable is required">>]

\* what the collaborators answer to the awaits of the validate_and_fix call of
\* main: the answers of Responses, and those of the probe's three calls in full
MainResponses(run) ==
    IF run.pc = "probe" THEN [at : {run.pc}, ok : {TRUE}, v : CallOutcomes]
    ELSE IF run.pc = "probe_log" THEN [at : {run.pc}, ok : {TRUE}, v : LogOutcomes]
    ELSE IF run.pc = "probe_dataset"
    THEN [at : {run.pc}, ok : {TRUE}, v : DatasetOutcomes]
    ELSE IF run.pc = "trigger"
    THEN Responses(run.pc, 0)
         \cup {[at |-> run.pc, ok |-> TRUE, v |-> NewBuildId(run.iteration + 1)]}
    ELSE Responses(run.pc, run.repolls)

StageOrder ==
    <<"analyze_intent", "generate_actor_code", "deploy_actor", "validate_and_fix">>

InitMain ==
    /\ api_key \in BOOLEAN
    /\ deployment \in Deployments
    /\ requirements \in Requirements
    /\ max_iterations = MainMaxIterations
    /\ iteration = 0
    /\ current_build_id = InitialBuild
    /\ status = "none"
    /\ test_result = NoTestResult
    /\ build_log = <<>>
    /\ fixed_files = NoFiles
    /\ result = NoResult
    /\ raised = NoException
    /\ hist = InitHist
    /\ pc = "get_input"
    /\ frame \in [fn : {"main"},
                   actor_input : ActorInputs,
                   openai_key : BOOLEAN,
                   actor_files : {NoFiles},
                   deployed : {FALSE},
                   calls : {<<>>},
                   returned : {<<>>},
                   saved : {0},
                   records : {<<>>},
                   exc : {NoException},
                   failed : {FALSE},
                   run : {NotEntered}]

MainUnchanged ==
    UNCHANGED <<api_key, deployment, requirements, max_iterations, iteration,
                current_build_id, status, test_result, build_log, fixed_files,
                hist>>

\* an exception leaves the try block: control is at the except clauses
MainRaise(f, e) ==
    /\ frame' = [f EXCEPT !.exc = e]
    /\ pc' = "except"
    /\ UNCHANGED <<result, raised>>

Called(stage) == [frame EXCEPT !.calls = Append(@, stage)]
CalledAndReturned(stage) ==
    [frame EXCEPT !.calls = Append(@, stage), !.returned = Append(@, stage)]

\* main.py 38-55: the input and the OpenAI key
GetInput ==
    /\ pc = "get_input"
    /\ \/ \E e \in MainExceptions : e.type = "Exception" /\ MainRaise(frame, e)
       \/ IF frame.actor_input \in {"none", "empty"}
          THEN MainRaise(frame, [type |-> "ValueError",
                                 msg |-> <<"No input provided">>])
          ELSE IF frame.actor_input = "no_prompt"
          THEN MainRaise(frame, [type |-> "ValueError",
                                 msg |-> <<"userPrompt is required">>])
          ELSE IF ~frame.openai_key
          THEN MainRaise(frame, [type |-> "ValueError",
                                 msg |-> <<"OPENAI_API_KEY environment variable is required. ",
                                           "Please set it in Actor settings under Environment variables.">>])
          ELSE /\ pc' = "analyze"
               /\ UNCHANGED <<frame, result, raised>>
    /\ MainUnchanged

\* main.py 63, intent_analyzer.py 158-176
AnalyzeIntent ==
    /\ pc = "analyze"
    /\ IF ~api_key
       THEN MainRaise(Called("analyze_intent"), AnthropicKeyRequired)
       ELSE \/ \E e \in MainExceptions :
                 e.type = "Exception" /\ MainRaise(Called("analyze_intent"), e)
            \/ /\ frame' = CalledAndReturned("analyze_intent")
               /\ pc' = "save_requirements"
               /\ UNCHANGED <<result, raised>>
    /\ MainUnchanged

\* main.py 71: Actor.set_value('requirements', requirements)
SaveRequirements ==
    /\ pc = "save_requirements"
    /\ \/ \E e \in MainExceptions : MainRaise(frame, e)
       \/ /\ frame' = [frame EXCEPT !.saved = @ + 1]
          /\ pc' = "generate"
          /\ UNCHANGED <<result, raised>>
    /\ MainUnchanged

\* main.py 78, actor_generator.py 498-516
GenerateActorCode ==
    /\ pc = "generate"
    /\ IF ~api_key
       THEN /\ MainRaise(Called("generate_actor_code"), AnthropicKeyRequired)
            /\ UNCHANGED requirements
       ELSE \E llm \in LlmOutcomes :
              LET g == generate(llm) IN
              IF g.ok
              THEN /\ frame' = [CalledAndReturned("generate_actor_code")
                                  EXCEPT !.actor_files = g.files]
                   /\ requirements' = AfterGenerate(requirements)
                   /\ pc' = "save_files"
                   /\ UNCHANGED <<result, raised>>
              ELSE /\ MainRaise(Called("generate_actor_code"), g.exc)
                   /\ UNCHANGED requirements
    /\ UNCHANGED <<api_key, deployment, max_iterations, iteration,
                   current_build_id, status, test_result, build_log, fixed_files,
                   hist>>

\* main.py 86-88: one set_value per generated file
SaveFile ==
    /\ pc = "save_files"
    /\ \/ \E e \in MainExceptions : MainRaise(frame, e)
       \/ /\ frame' = [frame EXCEPT !.saved = @ + 1]
          /\ pc' = IF frame.saved + 1 = 1 + Cardinality(DOMAIN frame.actor_files)
                   THEN "deploy" ELSE "save_files"
          /\ UNCHANGED <<result, raised>>
    /\ MainUnchanged

\* mutant: a failed deployment is passed on to the validation
DeployActor_Swallowed ==
    /\ pc = "deploy"
    /\ \/ /\ frame' = Called("deploy_actor")
          /\ pc' = "validate"
          /\ UNCHANGED <<result, raised>>
       \/ /\ frame' = [CalledAndReturned("deploy_actor") EXCEPT !.deployed = TRUE]
          /\ pc' = "validate"
          /\ UNCHANGED <<result, raised>>
    /\ MainUnchanged

\* main.py 95-101: deploy_actor(actor_files, actor_name)
DeployActor ==
    /\ pc = "deploy"
    /\ \/ \E e \in MainExceptions : MainRaise(Called("deploy_actor"), e)
       \/ /\ frame' = [CalledAndReturned("deploy_actor") EXCEPT !.deployed = TRUE]
          /\ pc' = "validate"
          /\ UNCHANGED <<result, raised>>
    /\ MainUnchanged

\* main.py 108-112 and validator.py 486-491, 46-54: validate_and_fix is called;
\* building the validator may raise; otherwise the method runs to its first
\* await and main is suspended with it
ValidateAndFix ==
    /\ pc = "validate"
    /\ \/ \E e \in MainExceptions : MainRaise(Called("validate_and_fix"), e)
       \/ /\ frame' = [Called("validate_and_fix") EXCEPT
                          !.run = EnterRun([deployment |-> deployment,
                                            max_iterations |-> max_iterations], 1)]
          /\ pc' = "validating"
          /\ UNCHANGED <<result, raised>>
    /\ MainUnchanged

\* main.py 108-112: the call in progress is resumed with the answer to the call
\* it awaits and runs to its next await, or returns its result to main
ValidateResume ==
    /\ pc = "validating"
    /\ \E ev \in MainResponses(frame.run) :
         LET run == Resume(frame.run, ev) IN
         /\ IF run.pc = "done"
            THEN /\ result' = run.result
                 /\ frame' = [frame EXCEPT !.run = run,
                                           !.returned = Append(@, "validate_and_fix")]
                 /\ pc' = "push"
            ELSE /\ frame' = [frame EXCEPT !.run = run]
                 /\ pc' = "validating"
                 /\ UNCHANGED result
         /\ requirements' = IF ev.at \in {"fix_generate", "fix_fallback"} /\ ev.v.ok
                            THEN AfterGenerate(requirements) ELSE requirements
    /\ UNCHANGED <<api_key, deployment, max_iterations, iteration, current_build_id,
                   status, test_result, build_log, fixed_files, hist, raised>>

\* main.py 123-139
OutputData(r, files, req) ==
    [status |-> r.status,
     actorId |-> r.actor_id,
     consoleUrl |-> r.console_url,
     actorName |-> "generated-actor",
     actorTitle |-> "None",
     buildId |-> r.build_id,
     iterations |-> r.iterations,
     message |-> r.message,
     error |-> IF "error" \in DOMAIN r THEN r.error ELSE <<"None">>,
     generatedFiles |-> DOMAIN files,
     requirements |-> [actor_type |-> "None", description |-> "None",
                       dependencies |-> req.dependencies]]

\* main.py 141-155: the output record
PushOutput ==
    /\ pc = "push"
    /\ \/ \E e \in MainExceptions : MainRaise(frame, e)
       \/ /\ frame' = [frame EXCEPT !.records =
                         Append(@, OutputData(result, frame.actor_files, requirements))]
          /\ pc' = "exited"
          /\ UNCHANGED <<result, raised>>
    /\ MainUnchanged

\* main.py 160-164 and 172-176
FailedRecord(e) ==
    [status |-> "failed",
     error |-> e.msg,
     errorType |-> IF e.type = "ValueError" THEN "validation_error"
                   ELSE "unexpected_error"]

\* main.py 157-164 and 167-176: the except clauses up to push_data, which may
\* itself raise, out of main
HandleError ==
    /\ pc = "except"
    /\ \/ \E e \in MainExceptions :
            /\ raised' = e
            /\ pc' = "raised"
            /\ UNCHANGED <<frame, result>>
       \/ /\ frame' = [frame EXCEPT !.records = Append(@, FailedRecord(frame.exc))]
          /\ pc' = "fail"
          /\ UNCHANGED <<result, raised>>
    /\ MainUnchanged

\* main.py 165 and 177: Actor.fail
Fail ==
    /\ pc = "fail"
    /\ frame' = [frame EXCEPT !.failed = TRUE]
    /\ pc' = "exited"
    /\ UNCHANGED <<result, raised>>
    /\ MainUnchanged

NextMain ==
    \/ GetInput
    \/ AnalyzeIntent
    \/ SaveRequirements
    \/ GenerateActorCode
    \/ SaveFile
    \/ DeployActor
    \/ ValidateAndFix
    \/ ValidateResume
    \/ PushOutput
    \/ HandleError
    \/ Fail

SpecMain == InitMain /\ [][NextMain]_vars

(***************************************************************************)
(* Properties of validate_and_fix.                                         *)
(***************************************************************************)
Returned == pc = "done"
\* the probe is the next step or is between two of its awaits
InProbe == pc \in {"probe", "probe_log", "probe_dataset"}
\* a repair is between two of its awaits
InRepair(fn) == pc \in {"fix_generate", "fix_fallback"} /\ frame.fn = fn
\* the runtime repair, or the build repair, is the next step or is under way
RuntimeRepair == pc = "fix_runtime" \/ InRepair("_fix_runtime_errors")
BuildRepair == pc = "fix_build" \/ InRepair("_fix_build_errors")
HasError(r) == "error" \in DOMAIN r
NoFault == hist.fault = "none"
OnlyBuilds(S) == \A s \in TerminalStatuses \ S : hist.builds[s] = 0

\* C1: for every max_iterations >= 1 and whatever the builds, probes and
\* collaborators do, the returned result has 1 <= iterations <= max_iterations.
C1_IterationsInRange ==
    (Returned /\ max_iterations >= 1)
        => (1 <= result.iterations /\ result.iterations <= max_iterations)

C1_Witness ==
    /\ Returned
    /\ max_iterations = 2
    /\ result.iterations = 2
    /\ hist.fault = "wait_for_build"

\* C2: when the first k builds end FAILED (each repair completing) and build k+1
\* ends SUCCEEDED with a probe that finds items, the result is 'success' with
\* iterations = k+1, a message reporting the item count, and no 'error' field.
C2_FailedThenSucceeded ==
    (/\ Returned
     /\ OnlyBuilds({"FAILED", "SUCCEEDED"})
     /\ hist.builds["SUCCEEDED"] = 1
     /\ hist.probe_kind = "data")
        => /\ result.status = "success"
           /\ result.iterations = hist.builds["FAILED"] + 1
           /\ hist.builds["FAILED"] < max_iterations
           /\ result.message[1] = "Actor built and tested successfully ("
           /\ result.message[2] = test_result.item_count
           /\ test_result.item_count > 0
           /\ ~HasError(result)

\* cap 3 with the builds FAILED, FAILED, SUCCEEDED and a probe that finds items
C2_Witness ==
    /\ Returned
    /\ max_iterations = 3
    /\ hist.builds["FAILED"] = 2
    /\ hist.builds["SUCCEEDED"] = 1
    /\ OnlyBuilds({"FAILED", "SUCCEEDED"})
    /\ hist.patch_requests = 2
    /\ hist.triggers = 2
    /\ hist.probe_kind = "data"
    /\ test_result.item_count > 0
    /\ result.status = "success"
    /\ result.iterations = 3
    /\ ~HasError(result)

\* C3: when every build observed ends FAILED and no collaborator call raises,
\* the result is 'failed' with iterations = max_iterations and an 'error' of 1 to
\* 1000 characters, also when the fetched build log is empty.
C3_AllBuildsFailed ==
    (/\ Returned
     /\ max_iterations >= 1
     /\ NoFault
     /\ OnlyBuilds({"FAILED"}))
        => /\ result.status = "failed"
           /\ result.iterations = max_iterations
           /\ hist.builds["FAILED"] = max_iterations
           /\ HasError(result)
           /\ Len(result.error) >= 1
           /\ Len(result.error) <= 1000

C3_Witness ==
    /\ Returned
    /\ max_iterations = 2
    /\ NoFault
    /\ OnlyBuilds({"FAILED"})
    /\ hist.builds["FAILED"] = 2
    /\ Len(build_log) = 1001
    /\ Len(result.error) = 1000
    /\ result.error = SubSeq(build_log, 2, 1001)

\* C4: when every build ends SUCCEEDED and every probe reports a failure (run
\* not succeeded, no dataset, or no items), the result at the cap is 'success',
\* never 'failed', with iterations = max_iterations, no 'error' field and the
\* caveat message that the test run produced no data.
C4_ProbeNeverProducesData ==
    (/\ Returned
     /\ max_iterations >= 1
     /\ NoFault
     /\ OnlyBuilds({"SUCCEEDED"})
     /\ hist.probe_errors = 0
     /\ hist.probe_kind \in {"run_failed", "no_dataset", "no_data"})
        => /\ result.status = "success"
           /\ result.iterations = max_iterations
           /\ hist.builds["SUCCEEDED"] = max_iterations
           /\ ~HasError(result)
           /\ result.message[1] = "Build succeeded but test run produced no data: "
           /\ result.message[2] = test_result.message

C4_Witness ==
    /\ Returned
    /\ max_iterations = 2
    /\ NoFault
    /\ hist.builds["SUCCEEDED"] = 2
    /\ hist.probes = 2
    /\ hist.probe_errors = 0
    /\ hist.probe_kind = "no_data"
    /\ result.status = "success"

\* C5: the cap is checked before a repair: on the pass with iteration =
\* max_iterations - 1 no patch is requested, no version pushed and no build
\* triggered, so a run makes at most max_iterations - 1 patch requests, version
\* updates and build triggers.
C5_CapBeforeRepair ==
    max_iterations >= 1
        => /\ pc \in {"fix_build", "fix_runtime", "fix_generate", "fix_fallback",
                       "update", "trigger"}
                => iteration < max_iterations - 1
           /\ hist.patch_requests <= max_iterations - 1
           /\ hist.updates <= max_iterations - 1
           /\ hist.triggers <= max_iterations - 1
           /\ (Returned /\ iteration = max_iterations - 1)
                => /\ hist.patch_requests = iteration
                   /\ hist.triggers = iteration

C5_Witness ==
    /\ Returned
    /\ max_iterations = 2
    /\ iteration = 1
    /\ status \in FailureStatuses
    /\ NoFault
    /\ hist.patch_requests = 1
    /\ hist.updates = 1
    /\ hist.triggers = 1

\* C6: a polling timeout is fatal on whichever pass it occurs: the run returns
\* 'failed' at once, and no probe, patch request, version update or build
\* trigger follows it.
PollTimedOut == hist.fault = "wait_for_build" /\ hist.exc.type = "TimeoutError"

C6_PollTimeoutFatal ==
    /\ [](PollTimedOut => (Returned /\ result.status = "failed"
                                    /\ result.message = <<"Build timed out">>))
    /\ [][PollTimedOut => UNCHANGED vars]_vars
    /\ [][(pc = "poll" /\ hist'.exc.type = "TimeoutError")
            => (pc' = "done" /\ hist'.probes = hist.probes
                             /\ hist'.patch_requests = hist.patch_requests
                             /\ hist'.updates = hist.updates
                             /\ hist'.triggers = hist.triggers)]_vars

C6_Witness ==
    /\ PollTimedOut
    /\ Returned
    /\ max_iterations = 2
    /\ iteration = 1
    /\ result.iterations = 2
    /\ result.status = "failed"

\* C7: an exception raised by a deployment-client step of the loop body (build
\* polling other than a timeout, build-log fetch, version update, build
\* trigger) ends the loop at once with 'failed' and an 'error' that is the
\* exception's message; no later pass runs.
ClientFault ==
    \/ hist.fault = "wait_for_build" /\ hist.exc.type # "TimeoutError"
    \/ hist.fault \in {"get_build_log", "update_actor_version", "trigger_build"}

C7_ClientExceptionFatal ==
    /\ [](ClientFault => /\ Returned
                         /\ result.status = "failed"
                         /\ HasError(result)
                         /\ result.error = hist.exc.msg
                         /\ result.iterations = iteration + 1)
    /\ [][ClientFault => UNCHANGED vars]_vars

C7_Witness ==
    /\ ClientFault
    /\ hist.fault = "update_actor_version"
    /\ hist.exc.type = "Exception"
    /\ Returned
    /\ max_iterations = 2
    /\ iteration = 0
    /\ result.status = "failed"
    /\ Len(result.error) = 1001

\* C8 as stated: an exception raised while probing collapses the loop at once
\* to a 'failed' result; it is never retried and never ends in 'success'.
C8_ProbeExceptionFatal ==
    hist.probe_kind = "error" => (Returned /\ result.status = "failed")

\* C8 amended: an exception raised while probing is caught inside the probe and
\* reported as an unsuccessful probe (item_count 0) whose message and log carry
\* the exception's message; the loop treats it as a runtime deficiency: with
\* budget remaining a runtime repair follows, with the budget exhausted the
\* result is 'success' with the no-data caveat and no 'error' field.
C8_ProbeExceptionAbsorbed ==
    hist.probe_kind = "error"
        => /\ ~test_result.success
           /\ test_result.item_count = 0
           /\ test_result.message = <<"Test run error: ", hist.probe_exc.msg>>
           /\ test_result.log = hist.probe_exc.msg
           /\ IF iteration < max_iterations - 1
              THEN \/ RuntimeRepair /\ result = NoResult
                   \/ Returned /\ hist.fault = "fix_runtime_errors"
              ELSE /\ Returned
                   /\ NoFault
                   /\ result.status = "success"
                   /\ ~HasError(result)
                   /\ result.message =
                        <<"Build succeeded but test run produced no data: ",
                          test_result.message>>

C8_Witness ==
    /\ hist.probe_kind = "error"
    /\ hist.probe_errors = 2
    /\ Len(hist.probe_exc.msg) = 2
    /\ Returned
    /\ result.status = "success"
    /\ result.iterations = 2

\* C9: a failed patch request (the repair service raises, answers with empty
\* text or with text that is not JSON) does not end the loop: the FileSet
\* pushed is an unpatched fresh generation, a new build is triggered, the
\* iteration counter advances and the loop polls that build.
PatchRequestFailed ==
    \/ hist.response \in {"raise", "empty", "prose"}
    \/ hist.response = "fenced" /\ status \in FailureStatuses

Unpatched(files) ==
    \E llm \in LlmOutcomes : generate(llm).ok /\ files = generate(llm).files

HasPrefix(s, pre) == Len(s) >= Len(pre) /\ SubSeq(s, 1, Len(pre)) = pre

C9_PatchFailureIsRetry ==
    PatchRequestFailed
        => /\ pc \in {"fix_fallback", "update", "trigger", "poll", "done"}
           /\ pc = "fix_fallback" => result = NoResult
           /\ pc \in {"update", "trigger"}
                => (Unpatched(fixed_files) /\ result = NoResult)
           /\ pc = "update" => hist.updates = hist.triggers
           /\ pc = "trigger" => hist.updates = hist.triggers + 1
           /\ pc = "poll"
                => /\ result = NoResult
                   /\ iteration = hist.patch_requests
                   /\ hist.updates = iteration
                   /\ hist.triggers = iteration
                   /\ current_build_id = NewBuildId(iteration)
           /\ Returned
                => \/ hist.fault \in {"update_actor_version", "trigger_build"}
                   \/ /\ hist.fault \in {"fix_build_errors", "fix_runtime_errors"}
                      /\ HasPrefix(hist.exc.msg, GenerationErrorPrefix)

C9_Witness ==
    /\ PatchRequestFailed
    /\ hist.response = "prose"
    /\ pc = "poll"
    /\ iteration = 1
    /\ hist.patch_requests = 1
    /\ hist.triggers = 1
    /\ current_build_id = NewBuildId(1)

\* C10: a call with max_iterations = 0 is rejected with a configuration error:
\* no result with status 'success' or 'failed' is returned for it.
C10_ZeroIterationsRejected ==
    max_iterations = 0 => ~(Returned /\ result.status \in {"success", "failed"})

\* C11: in every returned result the 'error' field is present exactly when the
\* status is 'failed'.
C11_ErrorIffFailed ==
    Returned => (HasError(result) <=> result.status = "failed")

\* the same for the calls with a positive budget
C11_ErrorIffFailedPositive ==
    (Returned /\ max_iterations >= 1)
        => (HasError(result) <=> result.status = "failed")

\* C12: every returned 'failed' result of a call with a positive budget carries
\* an 'error' of at most 1000 characters, however long the build log or the
\* exception message was.
C12_ErrorBounded ==
    (Returned /\ max_iterations >= 1 /\ result.status = "failed")
        => (HasError(result) /\ Len(result.error) <= 1000)

\* the declared fields have pairwise different names
DistinctNames(input_fields) ==
    \A i, j \in 1..Len(input_fields) :
        input_fields[i].name = input_fields[j].name => i = j

\* C13: for declared fields with pairwise different names, the test input of the
\* probe holds exactly the pairs name -> default of the fields whose default is
\* present and not null; [{name: a, default: x}, {name: b}] gives exactly {a: x}.
C13_TestInputIsDefaults ==
    (pc = "called" /\ frame.fn = "_test_actor_run"
        /\ DistinctNames(requirements.input_fields))
    => LET fs == requirements.input_fields
           given == {i \in 1..Len(fs) : fs[i].default.k = "value"}
       IN /\ DOMAIN frame.test_input = {fs[i].name : i \in given}
          /\ \A i \in given : frame.test_input[fs[i].name] = fs[i].default.v
          /\ (Len(fs) = 2 /\ fs[1].name = "a" /\ fs[1].default = Value("x")
                /\ fs[2].name = "b" /\ fs[2].default = NoDefault)
             => frame.test_input = [n \in {"a"} |-> "x"]

C13_Witness ==
    /\ pc = "called"
    /\ frame.fn = "_test_actor_run"
    /\ requirements.input_fields =
         <<Field("a", TRUE, Value("x")), Field("b", FALSE, NoDefault)>>
    /\ frame.test_input = [n \in {"a"} |-> "x"]

\* a repair called on its own has returned
RepairReturned ==
    pc = "called" /\ frame.fn \in {"_fix_build_errors", "_fix_runtime_errors"}

\* the response text is one JSON document and nothing else
PlainJson(text) == Len(text) = 1 /\ text[1].t = "json"

\* C14: when a repair applies a patch, the FileSet it returns maps every path of
\* the patch to the patch's content and every other path to the content of the
\* fresh generation, and no other path; overlaying the same patch once more
\* leaves that FileSet as it is.
C14_PatchOverlay ==
    (RepairReturned /\ frame.response.ok /\ PlainJson(frame.response.text)
        /\ frame.response.text[1].v.kind = "object" /\ generate(frame.llm1).ok)
    => LET patch == frame.response.text[1].v.map
           fresh == generate(frame.llm1).files
           files == frame.ret.files
       IN /\ frame.ret.ok
          /\ DOMAIN files = (DOMAIN fresh) \cup (DOMAIN patch)
          /\ \A p \in DOMAIN patch : files[p] = patch[p]
          /\ \A p \in (DOMAIN fresh) \ (DOMAIN patch) : files[p] = fresh[p]
          /\ Overlay(files, patch) = files

C14_Witness ==
    /\ RepairReturned
    /\ frame.response.ok
    /\ frame.response.text =
         <<Json(JObject([p \in {MainPy, "requirements.txt"} |->
                            IF p = MainPy THEN Fix1 ELSE Fix2]))>>
    /\ generate(frame.llm1).ok
    /\ frame.ret.ok
    /\ frame.ret.files[MainPy] = Fix1
    /\ frame.ret.files["requirements.txt"] = Fix2
    /\ frame.ret.files["Dockerfile"] = generate(frame.llm1).files["Dockerfile"]

\* a JSON value that is an object whose keys are generated paths and whose
\* values are file contents
ValidPatch(v) ==
    /\ v.kind = "object"
    /\ DOMAIN v.map \subseteq Paths
    /\ \A p \in DOMAIN v.map : v.map[p] # NotText

\* C15: a response that is JSON but not an object of generated paths with file
\* contents is handled as a parse failure: the repair returns exactly the fresh
\* regeneration, unpatched, with no path outside the generated set.
C15_InvalidPatchRejected ==
    (RepairReturned /\ frame.response.ok /\ PlainJson(frame.response.text)
        /\ ~ValidPatch(frame.response.text[1].v) /\ frame.ret.ok)
    => /\ frame.ret.patch_failed
       /\ frame.ret.files = generate(frame.llm2).files
       /\ DOMAIN frame.ret.files = Paths

\* C16 as stated: every call eventually returns, whatever the client does.
C16_AlwaysReturns == <>Returned

\* C16: a call returns exactly one result unless the client reports a
\* non-terminal build status again and again without end (then the loop sleeps
\* and re-polls for ever); the result is set when the call returns and at no
\* other time, and after returning the call takes no further step.
C16_ReturnsUnlessRepollingForever ==
    /\ <>Returned \/ []<>(pc = "sleep")
    /\ [](Returned <=> result # NoResult)
    /\ [][pc # "done"]_vars

C16_Witness ==
    /\ Returned
    /\ result.status = "success"
    /\ hist.repolls = MaxRepolls
    /\ status = "SUCCEEDED"
    /\ hist.triggers = 1
    /\ max_iterations = 2

\* C17: no step of validate_and_fix changes its arguments: the deployment and
\* the requirements (its input_fields and dependencies lists) are on return
\* what they were at the call, also after the regenerations of the repairs.
C17_InputsUnchanged ==
    [][requirements' = requirements /\ deployment' = deployment]_vars

C17_Witness ==
    /\ Returned
    /\ hist.patch_requests = 1
    /\ hist.triggers = 1
    /\ requirements.dependencies = <<"requests">>
    /\ Len(requirements.input_fields) = 2
    /\ deployment.build_id = InitialBuild
    /\ current_build_id # deployment.build_id

\* the step is a wait_for_build call that reported a status
Observed == pc = "poll" /\ hist'.polls = hist.polls + 1 /\ hist'.fault = "none"

\* C18: each of the terminal statuses FAILED, ABORTED and TIMED_OUT (reported by
\* wait_for_build as 'TIMED-OUT') is a build deficiency, and what follows does
\* not depend on which of them it was: the build log is fetched; with budget
\* left the build repair follows, then the version update with the repair's
\* FileSet, then a new build, which becomes the current build of the next
\* pass; at the cap a 'failed' result with an 'error' is returned, no exception
\* leaves the call and the build is not polled again.
C18_FailureStatusesAlike ==
    /\ [][(Observed /\ status' \in {"FAILED", "ABORTED", "TIMED-OUT"})
            => (pc' = "get_log" /\ result' = NoResult /\ iteration' = iteration)]_vars
    /\ []((pc = "get_log" \/ BuildRepair)
            => status \in {"FAILED", "ABORTED", "TIMED-OUT"})
    /\ [][(pc = "get_log" /\ hist'.fault = "none")
            => IF iteration >= max_iterations - 1
               THEN /\ pc' = "done"
                    /\ result' = BuildFailedResult(deployment.actor_id,
                                                   current_build_id, iteration,
                                                   max_iterations, build_log')
                    /\ result'.status = "failed"
                    /\ HasError(result')
                    /\ result'.iterations = iteration + 1
                    /\ raised' = NoException
                    /\ hist'.polls = hist.polls
               ELSE /\ pc' = "fix_build"
                    /\ result' = NoResult]_vars
    /\ [][pc = "fix_build"
            => /\ pc' \in {"fix_generate", "fix_fallback"}
               /\ frame'.fn = "_fix_build_errors"
               /\ hist'.patch_requests = hist.patch_requests + 1
               /\ result' = NoResult]_vars
    /\ [][(InRepair("_fix_build_errors") /\ hist'.fault = "none")
            => /\ pc' \in {"fix_fallback", "update"}
               /\ pc' = "update" => fixed_files' # NoFiles
               /\ result' = NoResult]_vars
    /\ [][(pc = "update" /\ hist'.fault = "none")
            => /\ pc' = "trigger"
               /\ hist'.updates = hist.updates + 1
               /\ fixed_files' = fixed_files
               /\ result' = NoResult]_vars
    /\ [][(pc = "trigger" /\ hist'.fault = "none")
            => /\ pc' = "poll"
               /\ hist'.triggers = hist.triggers + 1
               /\ current_build_id' = NewBuildId(hist'.triggers)
               /\ current_build_id' # current_build_id
               /\ iteration' = iteration + 1
               /\ result' = NoResult]_vars

\* cap 3: the builds end ABORTED, TIMED-OUT and FAILED; the first two are
\* repaired, redeployed and rebuilt, the third is reported
C18_Witness ==
    /\ Returned
    /\ NoFault
    /\ max_iterations = 3
    /\ hist.builds["ABORTED"] = 1
    /\ hist.builds["TIMED-OUT"] = 1
    /\ hist.builds["FAILED"] = 1
    /\ hist.builds["SUCCEEDED"] = 0
    /\ hist.patch_requests = 2
    /\ hist.updates = 2
    /\ hist.triggers = 2
    /\ current_build_id = NewBuildId(2)
    /\ result.status = "failed"
    /\ result.iterations = 3
    /\ HasError(result)

\* C19: a reported status other than SUCCEEDED, FAILED, ABORTED and TIMED-OUT is
\* not terminal: the loop sleeps and is back at the poll of the same build with
\* the iteration counter, the current build id and the actor's source as they
\* were, and without a probe, a patch request, a version update or a new build.
C19_NonTerminalRepolls ==
    /\ [][(Observed /\ status' \notin {"SUCCEEDED", "FAILED", "ABORTED", "TIMED-OUT"})
            => /\ pc' = "sleep"
               /\ UNCHANGED <<iteration, current_build_id, fixed_files, result>>
               /\ hist'.probes = hist.probes
               /\ hist'.patch_requests = hist.patch_requests
               /\ hist'.updates = hist.updates
               /\ hist'.triggers = hist.triggers]_vars
    /\ [][pc = "sleep"
            => /\ pc' = "poll"
               /\ result' = NoResult
               /\ UNCHANGED <<iteration, current_build_id, fixed_files, hist>>]_vars

C19_Witness ==
    /\ pc = "poll"
    /\ status = "RUNNING"
    /\ hist.repolls = 1
    /\ hist.polls = 2
    /\ iteration = 1
    /\ current_build_id = NewBuildId(1)
    /\ hist.triggers = 1

\* how many terminal build statuses the call has observed
TerminalObservations ==
    hist.builds["SUCCEEDED"] + hist.builds["FAILED"] + hist.builds["ABORTED"]
        + hist.builds["TIMED-OUT"]

\* C20 as stated: a call observes a build status at most max_iterations times.
C20_ObservationsBounded ==
    TerminalObservations + hist.repolls <= max_iterations

\* C20: the iteration counter increases by exactly one on every pass that ends
\* with a new build triggered and changes at no other step (a pass that saw a
\* non-terminal status leaves it as it is); it counts the builds triggered, and
\* a call observes a terminal build status at most max_iterations times.
C20_IterationCountsRepairs ==
    /\ [][IF pc = "trigger" /\ hist'.fault = "none"
          THEN iteration' = iteration + 1 /\ hist'.triggers = hist.triggers + 1
          ELSE iteration' = iteration /\ hist'.triggers = hist.triggers]_vars
    /\ [](iteration = hist.triggers)
    /\ [](pc \in {"poll", "sleep"} => TerminalObservations = iteration)
    /\ [](TerminalObservations <= max_iterations)

C20_Witness ==
    /\ Returned
    /\ NoFault
    /\ max_iterations = 2
    /\ TerminalObservations = 2
    /\ hist.repolls = 1
    /\ hist.polls = 3
    /\ iteration = 1

\* the paths named by a JSON object in a response of the repair service
NamedIn(resp) ==
    UNION {DOMAIN resp.text[i].v.map :
             i \in {j \in 1..Len(resp.text) : resp.text[j].t = "json"}}

\* a content the generator produced (generated code or a templated file)
IsGenerated(content) == content[1] \in {"llm", "template"}

\* C21: patches never accumulate.  In the FileSet of every repair of a run, a
\* path that the response of that same repair does not name is a generated path
\* with generated content, also when the repair before it had patched that path.
C21_PatchesDoNotAccumulate ==
    frame.fn = "repairs"
    => \A k \in 1..Len(frame.pushed) :
          \A p \in DOMAIN frame.pushed[k].files :
             p \notin NamedIn(frame.pushed[k].response)
                => (p \in Paths /\ IsGenerated(frame.pushed[k].files[p]))

C21_Witness ==
    /\ frame.fn = "repairs"
    /\ Len(frame.pushed) = 2
    /\ frame.pushed[1].response.text = <<Json(JObject(OnePath(MainPy, Fix1)))>>
    /\ frame.pushed[1].files[MainPy] = Fix1
    /\ frame.pushed[2].response.text =
         <<Json(JObject(OnePath("requirements.txt", Fix2)))>>
    /\ frame.pushed[2].files["requirements.txt"] = Fix2
    /\ frame.pushed[2].files[MainPy] = <<"llm", "code2">>

\* the id of the last build the loop triggered, the deployment's when it
\* triggered none
LastTriggeredBuild ==
    IF hist.triggers = 0 THEN deployment.build_id ELSE NewBuildId(hist.triggers)

\* C22: once the call is past its head the current build id is the id of the
\* build triggered last, and every returned result carries the deployment's
\* actor_id, the console URL made of the fixed base and that actor_id, and the
\* id of the build triggered last (the deployment's if none was triggered).
C22_IdsOfResult ==
    /\ pc \notin {"start", "raised"} => current_build_id = LastTriggeredBuild
    /\ Returned
         => /\ result.actor_id = deployment.actor_id
            /\ result.console_url =
                 <<"https://console.apify.com/actors/", deployment.actor_id>>
            /\ result.build_id = LastTriggeredBuild

C22_Witness ==
    /\ Returned
    /\ deployment.actor_id = "actorB"
    /\ hist.triggers = 1
    /\ result.status = "success"
    /\ result.actor_id = "actorB"
    /\ result.build_id = NewBuildId(1)
    /\ result.build_id # deployment.build_id

\* C23: given the same response of the repair service and the same fresh
\* generations, the build repair and the runtime repair return the same
\* FileSet, also for a JSON object wrapped in a markdown code fence.
C23_RepairsAgree ==
    (RepairReturned /\ frame.llm1 = frame.llm2)
    => LET g1 == generate(frame.llm1)
           g2 == generate(frame.llm2)
       IN fix_build_errors(frame.response, g1, g2).files
            = fix_runtime_errors(frame.response, g1, g2).files

\* the same for the responses without a code fence
C23_RepairsAgreeUnfenced ==
    (RepairReturned /\ frame.llm1 = frame.llm2
        /\ \A i \in 1..Len(frame.response.text) : frame.response.text[i] # Fence)
    => LET g1 == generate(frame.llm1)
           g2 == generate(frame.llm2)
       IN fix_build_errors(frame.response, g1, g2)
            = fix_runtime_errors(frame.response, g1, g2)

\* C24: the steps of a run are ordered.  The probe and the runtime repair come
\* only after the current build was observed SUCCEEDED, the runtime repair only
\* after an unsuccessful probe of it; the log fetch and the build repair only
\* after the current build was observed with a failure status; a patch is
\* requested once per observed build, the version update completes before the
\* one new build is triggered, and the counter advances with that trigger,
\* before the next poll.
C24_StepsOrdered ==
    /\ (InProbe \/ RuntimeRepair)
         => (status = "SUCCEEDED" /\ TerminalObservations = hist.triggers + 1)
    /\ InProbe => hist.probe_kind = "none"
    /\ pc \in {"probe_log", "probe_dataset"}
         => (frame.fn = "_test_actor_run" /\ frame.run.ok)
    /\ pc = "probe_dataset"
         => (frame.run.status = "SUCCEEDED" /\ frame.run.has_dataset)
    /\ RuntimeRepair
         => (~test_result.success /\ hist.probe_kind \notin {"none", "data"})
    /\ (pc = "get_log" \/ BuildRepair)
         => (status \in FailureStatuses /\ TerminalObservations = hist.triggers + 1)
    /\ (InProbe \/ pc \in {"get_log", "fix_runtime", "fix_build"})
         => (hist.patch_requests = hist.triggers /\ hist.updates = hist.triggers)
    /\ pc \in {"fix_generate", "fix_fallback"}
         => /\ RuntimeRepair \/ BuildRepair
            /\ hist.patch_requests = hist.triggers + 1
            /\ hist.updates = hist.triggers
    /\ pc = "update"
         => (hist.patch_requests = hist.triggers + 1 /\ hist.updates = hist.triggers)
    /\ pc = "trigger"
         => /\ hist.patch_requests = hist.triggers + 1
            /\ hist.updates = hist.triggers + 1
    /\ (InProbe \/ pc \in {"get_log", "fix_runtime", "fix_build", "fix_generate",
                            "fix_fallback", "update", "trigger"})
         => iteration = hist.triggers
    /\ pc \in {"poll", "sleep"}
         => /\ iteration = hist.triggers
            /\ hist.updates = hist.triggers
            /\ hist.patch_requests = hist.triggers
            /\ TerminalObservations = hist.triggers

C24_Witness ==
    /\ pc = "poll"
    /\ iteration = 1
    /\ hist.triggers = 1
    /\ hist.updates = 1
    /\ hist.patch_requests = 1
    /\ hist.builds["SUCCEEDED"] = 1
    /\ hist.builds["FAILED"] = 0
    /\ hist.probes = 1
    /\ ~test_result.success

\* C25: a probe whose run did not end SUCCEEDED, whose run has no dataset, or
\* whose dataset holds no item is reported as not successful with item_count 0
\* and the run's log; with budget left the runtime repair is next (and only its
\* own failure can end the call), at the cap the call returns the success with
\* the no-data caveat.  The tested success is returned exactly for a probe of a
\* succeeded run with item_count > 0.
C25_ProbeDeficiency ==
    /\ hist.probe_kind \in {"run_failed", "no_dataset", "no_data"}
         => /\ ~test_result.success
            /\ test_result.item_count = 0
            /\ test_result.log \in RunLogs \cup {CouldNotFetchRunLog}
            /\ iteration < max_iterations - 1
                 => \/ RuntimeRepair
                    \/ pc = "done" /\ hist.fault = "fix_runtime_errors"
            /\ iteration >= max_iterations - 1
                 => /\ pc = "done"
                    /\ NoFault
                    /\ result.status = "success"
                    /\ result.message =
                         <<"Build succeeded but test run produced no data: ",
                           test_result.message>>
    /\ (Returned /\ result.message[1] = "Actor built and tested successfully (")
         <=> (Returned /\ hist.probe_kind = "data")
    /\ hist.probe_kind = "data"
         => /\ Returned
            /\ test_result.success
            /\ test_result.item_count > 0
            /\ result.status = "success"
            /\ result.message[2] = test_result.item_count

C25_Witness ==
    /\ pc = "fix_runtime"
    /\ hist.probe_kind = "no_dataset"
    /\ test_result.message = <<"No dataset found">>
    /\ test_result.log = Text(3)
    /\ iteration = 0
    /\ max_iterations = 2

\* C26: the log text sent with a repair request is a suffix of the log given:
\* the whole log when it has at most 2000 characters (build repair) or 3000
\* characters (runtime repair), and otherwise exactly its last 2000 or 3000
\* characters, so that the start of a longer log is not sent.
C26_LogSuffixSent ==
    pc = "called" /\ frame.fn \in {"_fix_build_errors", "_fix_runtime_errors"}
      => LET bound == IF frame.fn = "_fix_build_errors" THEN 2000 ELSE 3000
             n == Len(frame.log)
             m == Len(frame.sent)
         IN  /\ m = (IF n <= bound THEN n ELSE bound)
             /\ \A i \in 1..m : frame.sent[i] = frame.log[n - m + i]
             /\ n <= bound => frame.sent = frame.log
             /\ n > bound => frame.sent # SubSeq(frame.log, 1, m)

C26_Witness ==
    /\ pc = "called"
    /\ frame.fn = "_fix_build_errors"
    /\ Len(frame.log) = 2003
    /\ Len(frame.sent) = 2000
    /\ frame.sent[1] = frame.log[4]

\* C29: with max_iterations >= 1 the while condition never fails: every pass
\* that reaches the cap returns from inside the loop, so the result built after
\* the loop ('Could not fix errors in N attempts', without 'error') is never
\* returned.
C29_FallThroughUnreachable ==
    max_iterations >= 1
      => /\ pc \notin {"start", "raised"} => iteration < max_iterations
         /\ Returned
              => /\ result # FallThroughResult(deployment.actor_id,
                                               current_build_id, max_iterations)
                 /\ result.message[1] # "Could not fix errors in "
                 /\ result.status = "failed" => HasError(result)

C29_Witness ==
    /\ Returned
    /\ NoFault
    /\ max_iterations = 2
    /\ iteration = 1
    /\ hist.triggers = 1
    /\ result.status = "failed"
    /\ result.iterations = 2

\* C30: a result with status 'success' is returned only when the status
\* observed last is SUCCEEDED, no step raised, and the build observed is the
\* one triggered last, whose id the result carries; a call whose last observed
\* status is FAILED, ABORTED or TIMED-OUT, or whose poll timed out, returns
\* 'failed'.
C30_SuccessOnlyAfterSucceeded ==
    /\ (Returned /\ result.status = "success")
         => /\ status = "SUCCEEDED"
            /\ NoFault
            /\ ~PollTimedOut
            /\ hist.builds["SUCCEEDED"] >= 1
            /\ TerminalObservations = hist.triggers + 1
            /\ result.build_id = LastTriggeredBuild
            /\ result.build_id = current_build_id
    /\ (Returned /\ (status \in FailureStatuses \/ PollTimedOut))
         => result.status = "failed"

C30_Witness ==
    /\ Returned
    /\ result.status = "success"
    /\ status = "SUCCEEDED"
    /\ hist.builds["ABORTED"] = 1
    /\ hist.builds["SUCCEEDED"] = 1
    /\ hist.triggers = 1
    /\ result.build_id = NewBuildId(1)

\* a stage before the validation was called and raised, or a step between the
\* stages raised before the validation was called
EarlierStageFailed ==
    /\ frame.exc # NoException
    /\ "validate_and_fix" \notin {frame.calls[i] : i \in 1..Len(frame.calls)}

\* C28: main calls analyze_intent, generate_actor_code, deploy_actor and
\* validate_and_fix in this order and each at most once; validate_and_fix is
\* called only after the three earlier stages returned; while that call is in
\* progress no result is bound; when an earlier stage
\* failed, validate_and_fix is not called, no result is bound, and the run
\* ends through Actor.fail with exactly one output record, whose status is
\* 'failed' (no record if the push of that record itself raised).
C28_StagesInOrder ==
    frame.fn = "main"
      => /\ Len(frame.calls) <= Len(StageOrder)
         /\ frame.calls = SubSeq(StageOrder, 1, Len(frame.calls))
         /\ frame.returned = SubSeq(StageOrder, 1, Len(frame.returned))
         /\ Len(frame.calls) = Len(StageOrder)
              => /\ Len(frame.returned) >= 3
                 /\ frame.deployed
                 /\ frame.actor_files # NoFiles
         /\ pc = "validating"
              => /\ frame.calls = StageOrder
                 /\ Len(frame.returned) = 3
                 /\ frame.run.pc \in RunAwaits
                 /\ result = NoResult
         /\ result # NoResult
              => /\ frame.returned = StageOrder
                 /\ result = frame.run.result
         /\ EarlierStageFailed
              => /\ pc \in {"except", "fail", "exited", "raised"}
                 /\ result = NoResult
                 /\ Len(frame.records) <= 1
                 /\ pc = "except" => frame.records = <<>>
                 /\ pc \in {"fail", "exited"}
                      => frame.records = <<FailedRecord(frame.exc)>>
                 /\ pc = "exited" => frame.failed
                 /\ pc = "raised" => frame.records = <<>>

C28_Witness ==
    /\ frame.fn = "main"
    /\ pc = "exited"
    /\ frame.calls = <<"analyze_intent", "generate_actor_code", "deploy_actor">>
    /\ frame.returned = <<"analyze_intent", "generate_actor_code">>
    /\ frame.exc.type = "Exception"
    /\ Len(frame.records) = 1
    /\ frame.records[1].status = "failed"
    /\ frame.records[1].errorType = "unexpected_error"
    /\ frame.failed

\* what call c can observe of world w and what the world holds of it: the
\* requirements dict, the call's locals, counts and result, the request it is
\* making, and the version of its actor on the platform
ViewOf(w, c) ==
    [requirements |-> w.requirements,
     run |-> [w.runs[c] EXCEPT !.self = 0],
     asked |-> w.asked[c],
     version |-> w.versions[frame.args[c].deployment.actor_id]]

\* the validator of call c in world w, the clients it holds, and the client
\* its generator holds
ObjectsOf(w, c) ==
    LET self == w.runs[c].self IN
    {self, w.heap[self].anthropic_client, w.heap[self].deployer, w.heap[self].generator,
     w.heap[w.heap[self].generator].client}

\* C27: two calls for different actors, handed the same requirements dict and
\* resumed in any order at their awaits: at every moment each call's locals,
\* counts and result, the request it makes at each await (poll, probe, patch
\* request, generation, push, build) with its arguments, the requirements it
\* sees and
\* the version of its actor on the platform are those of the same call given
\* the same responses with no other call running; the two calls hold
\* different validator, deployer, generator and repair-service objects and
\* their generators different clients; and
\* each result names the call's own actor.
C27_RunsIndependent ==
    frame.fn = "two_runs"
      => /\ \A c \in frame.entered :
              /\ ViewOf(frame.world, c) = ViewOf(frame.alone[c], c)
              /\ frame.world.runs[c].actor_id = frame.args[c].deployment.actor_id
              /\ frame.world.runs[c].pc = "done"
                   => frame.world.runs[c].result.actor_id = c
         /\ \A c, d \in frame.entered :
              c # d => ObjectsOf(frame.world, c) \cap ObjectsOf(frame.world, d) = {}
         /\ \A c \in Calls \ frame.entered :
              /\ frame.world.runs[c] = NotEntered
              /\ frame.world.asked[c] = <<>>
         /\ requirements = frame.world.requirements

\* call A, started second, has repaired once, pushed its FileSet and is inside
\* the probe of its second build while call B is inside its first probe
C27_Witness ==
    /\ frame.fn = "two_runs"
    /\ frame.entered = Calls
    /\ frame.world.runs["actorA"].pc = "probe_dataset"
    /\ frame.world.runs["actorA"].iteration = 1
    /\ frame.world.runs["actorA"].current_build_id = NewBuildId(1)
    /\ frame.world.runs["actorA"].steps["fix_runtime"] = 1
    /\ frame.world.runs["actorA"].steps["probe"] = 2
    /\ frame.world.versions["actorA"] # NoFiles
    /\ frame.world.versions["actorB"] = NoFiles
    /\ frame.world.runs["actorB"].pc = "probe_log"
    /\ frame.world.runs["actorB"].iteration = 0
    /\ frame.world.asked["actorB"] = <<"log.get">>
    /\ frame.world.asked["actorA"] = <<"dataset.get">>
    /\ frame.world.runs["actorB"].self < frame.world.runs["actorA"].self
    /\ Len(frame.world.heap) = 10
    /\ Cardinality(ObjectsOf(frame.world, "actorA")
                     \cup ObjectsOf(frame.world, "actorB")) = 10

\* C31: for max_iterations >= 1 every returned result has 'iterations' equal
\* to 1 plus the number of builds the loop triggered in this call, whether it
\* returns a success, the failure at the cap, the timeout result or the result
\* of the general handler.
C31_IterationsCountTriggers ==
    (Returned /\ max_iterations >= 1)
      => /\ result.iterations = 1 + hist.triggers
         /\ result.iterations = 1 + iteration
         /\ current_build_id = NewBuildId(hist.triggers)

C31_Witness ==
    /\ Returned
    /\ max_iterations = 2
    /\ PollTimedOut
    /\ hist.triggers = 1
    /\ result.message = <<"Build timed out">>
    /\ result.iterations = 2

\* the FileSet pushed last is the one of the n-th version update that returned
\* (the deployment's own FileSet for n = 0), and the n-th build the loop
\* triggers is made from the FileSet of the n-th update
BuildOfLastPush == NewBuildId(hist.updates)

\* C32: whenever the call returns, the result's build_id is the build made
\* from the FileSet pushed last.
C32_BuildIdOfLastPush ==
    Returned => result.build_id = BuildOfLastPush

\* the same for every return but the one after a build trigger that raised
C32_BuildIdOfLastPushUnlessTriggerRaised ==
    /\ (Returned /\ hist.fault # "trigger_build")
         => result.build_id = BuildOfLastPush
    /\ (Returned /\ hist.fault = "trigger_build")
         => /\ hist.updates = hist.triggers + 1
            /\ result.build_id = NewBuildId(hist.triggers)
            /\ result.status = "failed"

\* the repair step ended with the exception of its fallback regeneration
FallbackRaised ==
    hist.patch_failed /\ hist.fault \in {"fix_build_errors", "fix_runtime_errors"}

\* C33: when the patch request failed and the regeneration of the except clause
\* raised, the repair does not return a FileSet: the loop's handler returns
\* 'failed' with the generator's exception message, and no version update and
\* no build trigger follows; a repair that hands a FileSet on to the update
\* after a failed patch request hands on a complete regeneration.
C33_FallbackFailureReachesHandler ==
    /\ FallbackRaised
         => /\ Returned
            /\ result.status = "failed"
            /\ result.message = <<"Validation error">>
            /\ hist.exc.type = "Exception"
            /\ result.error = hist.exc.msg
            /\ HasPrefix(result.error, GenerationErrorPrefix)
            /\ hist.updates = iteration
            /\ hist.triggers = iteration
            /\ result.build_id = LastTriggeredBuild
    /\ (pc = "update" /\ hist.patch_failed) => Unpatched(fixed_files)

C33_Witness ==
    /\ FallbackRaised
    /\ Returned
    /\ hist.fault = "fix_runtime_errors"
    /\ hist.response = "raise"
    /\ hist.exc.msg = GenerationErrorPrefix \o ShortCodeMessage(18)
    /\ iteration = 0
    /\ hist.updates = 0
    /\ hist.triggers = 0
    /\ max_iterations = 2

====
